---- MODULE Spec2Model ----
(***************************************************************************)
(* Model of the ad-intelligence pipeline of xai-ad-intelligence:           *)
(*   - the tool-calling variant loop  (v0/ad_remixer.py)                   *)
(*   - the image CTR comparison       (v0/ad_remixer.py)                   *)
(*   - the ensemble CTR critic        (v0/critic_agent.py)                 *)
(*                                                                         *)
(* Texts are sequences of one-character tokens so that the string clean-up *)
(* of the code (strip, split, join) is computed, not assumed.  Real        *)
(* numbers are fixed point with three decimals (1000 = 1.0).               *)
(***************************************************************************)
EXTENDS Integers, Sequences, FiniteSets, TLC

(***************************************************************************)
(* Bounds of the model.                                                    *)
(***************************************************************************)
\* at most this many tool calls in one model reply
MaxToolCalls == 2
\* at most this many entries in the reply of the image scoring model
MaxScoreEntries == 2
\* at most this many candidates are handed to predict
MaxAds == 2
\* the configured ensemble size is between 1 and this
MaxRuns == 2

(***************************************************************************)
(* Program constants.                                                      *)
(***************************************************************************)
\* max_iterations = 3 of the tool-calling loop
max_iterations == 3
\* remix_ads starts range(3) variants, numbered 1..3
NumVariants == 3
Variants == 1..NumVariants
\* default score of the failure path of _score_image_ctr, and of a missing
\* "ctr_score" in a score entry
DefaultCtrScore == 50

NoneVal == "None"

(***************************************************************************)
(* Python string helpers on token sequences.                               *)
(***************************************************************************)
NL == "LF"
SP == " "
DQ == "dq"
SQ == "sq"
BT == "bt"
Whitespace == {SP, NL}

RECURSIVE LStrip(_, _)
LStrip(s, chars) ==
    IF s # <<>> /\ Head(s) \in chars THEN LStrip(Tail(s), chars) ELSE s

RECURSIVE RStrip(_, _)
RStrip(s, chars) ==
    IF s # <<>> /\ s[Len(s)] \in chars
    THEN RStrip(SubSeq(s, 1, Len(s) - 1), chars)
    ELSE s

\* str.strip(chars)
PyStrip(s, chars) == RStrip(LStrip(s, chars), chars)

\* str.startswith of a three-backtick fence
StartsWithFence(s) ==
    Len(s) >= 3 /\ s[1] = BT /\ s[2] = BT /\ s[3] = BT

\* str.split("\n")
RECURSIVE SplitLines(_)
SplitLines(s) ==
    IF \A i \in 1..Len(s) : s[i] # NL
    THEN <<s>>
    ELSE LET i == CHOOSE k \in 1..Len(s) :
                     s[k] = NL /\ \A j \in 1..(k - 1) : s[j] # NL
         IN  <<SubSeq(s, 1, i - 1)>> \o SplitLines(SubSeq(s, i + 1, Len(s)))

\* "\n".join(lines)
RECURSIVE JoinLines(_)
JoinLines(ls) ==
    IF ls = <<>> THEN <<>>
    ELSE IF Len(ls) = 1 THEN ls[1]
    ELSE ls[1] \o <<NL>> \o JoinLines(Tail(ls))

\* The clean-up of a reply's free text: the value of `content` when the
\* code tests `if content:` (the caller stores content.strip()).
CleanContent(raw) ==
    LET c1 == PyStrip(raw, Whitespace)
        c2 == PyStrip(PyStrip(c1, {DQ}), {SQ})
        lines == SplitLines(c2)
    IN  IF StartsWithFence(c2)
        THEN IF Len(lines) > 2
             THEN JoinLines(SubSeq(lines, 2, Len(lines) - 1))
             ELSE c2
        ELSE c2

\* free text that yields to a copy already there
CopyAfterContentKeepsCopy(old, raw) ==
    IF old = <<>> /\ raw # <<>> /\ CleanContent(raw) # <<>>
    THEN PyStrip(CleanContent(raw), Whitespace)
    ELSE old

\* ad_copy after the free text of a reply has been looked at
CopyAfterContent(old, raw) ==
    IF raw # <<>> /\ CleanContent(raw) # <<>>
    THEN PyStrip(CleanContent(raw), Whitespace)
    ELSE old

\* dict.get(key, default) on a dict modelled as a function
Get(d, k, default) == IF k \in DOMAIN d THEN d[k] ELSE default

\* dict[key] = value
Put(d, k, val) == [x \in DOMAIN d \cup {k} |-> IF x = k THEN val ELSE d[x]]

\* all sequences over S of length at most n
SeqsUpTo(S, n) == UNION {[1..k -> S] : k \in 0..n}

\* list.sort(key=..., reverse=True) and sorted(..., reverse=True): a stable
\* sort into non-increasing key order (equal keys keep their order)
\* an insertion that orders by increasing key
RECURSIVE InsertAsc(_, _, _)
InsertAsc(order, i, keys) ==
    IF order = <<>> THEN <<i>>
    ELSE IF keys[Head(order)] <= keys[i]
         THEN <<Head(order)>> \o InsertAsc(Tail(order), i, keys)
         ELSE <<i>> \o order

RECURSIVE InsertDesc(_, _, _)
InsertDesc(order, i, keys) ==
    IF order = <<>> THEN <<i>>
    ELSE IF keys[Head(order)] >= keys[i]
         THEN <<Head(order)>> \o InsertDesc(Tail(order), i, keys)
         ELSE <<i>> \o order

\* the indices of keys in stable non-increasing key order
RECURSIVE OrderDesc(_, _)
OrderDesc(keys, n) ==
    IF n = 0 THEN <<>>
    ELSE InsertDesc(OrderDesc(keys, n - 1), n, keys)

\* a non-increasing order that puts equal keys in reverse input order
SortDescTiesReversed(s, keys) ==
    LET n     == Len(s)
        order == OrderDesc([i \in 1..n |-> keys[n + 1 - i]], n)
    IN  [i \in 1..n |-> s[n + 1 - order[i]]]

\* s reordered into stable non-increasing order of keys (keys[i] is the
\* key of s[i])
SortDesc(s, keys) ==
    LET order == OrderDesc(keys, Len(s))
    IN  [i \in 1..Len(s) |-> s[order[i]]]

(***************************************************************************)
(* Inputs and replies of the variant loop.                                 *)
(***************************************************************************)
\* candidate texts: _compose_ad_text gives "" for an ad without title,
\* description and tagline
Ads == {<<>>, <<"A">>}

\* free text of a model reply (None and "" are both <<>>)
Contents ==
    { <<>>,
      <<"T">>,
      <<DQ, SP, DQ>>,
      <<BT, BT, BT, NL, "U", NL, BT, BT, BT>>,
      <<BT, BT, BT, NL, NL, BT, BT, BT>> }

\* tool-call arguments after json.loads, when they are a JSON object
ArgObjects ==
    { [image_prompt |-> "P", ad_copy |-> <<"C">>, enhancement_notes |-> "N"],
      [image_prompt |-> "P", ad_copy |-> <<>>],
      [image_prompt |-> "P"] }

\* the arguments string of a tool call: not JSON, a JSON array, a JSON object
ArgStrings ==
    { [kind |-> "invalid", obj |-> [image_prompt |-> "P"]],
      [kind |-> "array", obj |-> [image_prompt |-> "P"]] }
    \cup {[kind |-> "object", obj |-> o] : o \in ArgObjects}

ToolCalls ==
    {[name |-> "generate_ad_image", arguments |-> a] : a \in ArgStrings}
    \cup {[name |-> "other_tool",
           arguments |-> [kind |-> "invalid", obj |-> [image_prompt |-> "P"]]]}

\* outcome of client.image.sample: a response with a url, a response
\* without one, an exception
ImageOutcomes == {"url", "no_url", "error"}

GeneratedUrl == "gen"
OriginalUrl == "orig"

\* image analyses handed in by remix_ads (absent = <<>>)
Analyses ==
    { <<>>,
      <<[key_elements |-> <<"logo">>, style_notes |-> "bold"]>>,
      <<[key_elements |-> <<>>, style_notes |-> ""]>> }

(***************************************************************************)
(* _generate_ad_image: the prompt sent and the value returned.             *)
(***************************************************************************)
\* final_prompt: the image prompt, with the reference clause when the
\* analysis has key elements or style notes
FinalPrompt(image_prompt, analysis) ==
    [prompt |-> image_prompt,
     reference |-> /\ analysis # <<>>
                   /\ \/ analysis[1].key_elements # <<>>
                      \/ analysis[1].style_notes # ""]

\* every failure inside _generate_ad_image is caught and gives None
GenerateAdImage(outcome) ==
    IF outcome = "url" THEN GeneratedUrl ELSE NoneVal

(***************************************************************************)
(* _score_image_ctr                                                        *)
(***************************************************************************)
\* entries of the JSON array returned by the scoring model
ScoreEntries ==
    {[isdict |-> TRUE,
      d |-> [image_index |-> i, ctr_score |-> sc, reasoning |-> "why"]] :
        i \in {1, 2}, sc \in {20, 150}}
    \cup {[isdict |-> TRUE,
           d |-> [image_index |-> 3, ctr_score |-> 80, reasoning |-> "why"]],
          [isdict |-> TRUE, d |-> [image_index |-> 2]],
          [isdict |-> FALSE, d |-> [image_index |-> 0]]}

\* replies of the scoring call: chat.sample raises, the text is not JSON,
\* the JSON is not iterable as a list of objects, or a JSON array
ScoreReplies ==
    {[kind |-> k, scores |-> <<>>] : k \in {"error", "nonjson", "notlist"}}
    \cup {[kind |-> "list", scores |-> es] :
            es \in SeqsUpTo(ScoreEntries, MaxScoreEntries)}

\* images with a url
ValidImages(images) == SelectSeq(images, LAMBDA img : img.url # NoneVal)

\* a loop that takes image_index as a 0-based index
RECURSIVE AddScoresZeroBased(_, _)
AddScoresZeroBased(imgs, entries) ==
    IF entries = <<>> THEN imgs
    ELSE LET sd  == Head(entries).d
             idx == Get(sd, "image_index", 0)
             upd == IF 0 <= idx /\ idx < Len(imgs)
                    THEN [imgs EXCEPT ![idx + 1] =
                            Put(Put(@, "ctr_score",
                                    Get(sd, "ctr_score", DefaultCtrScore)),
                                "ctr_reasoning", Get(sd, "reasoning", ""))]
                    ELSE imgs
         IN  AddScoresZeroBased(upd, Tail(entries))

\* the loop "for score_data in scores"
RECURSIVE AddScores(_, _)
AddScores(imgs, entries) ==
    IF entries = <<>> THEN imgs
    ELSE LET sd  == Head(entries).d
             idx == Get(sd, "image_index", 0) - 1
             upd == IF 0 <= idx /\ idx < Len(imgs)
                    THEN [imgs EXCEPT ![idx + 1] =
                            Put(Put(@, "ctr_score",
                                    Get(sd, "ctr_score", DefaultCtrScore)),
                                "ctr_reasoning", Get(sd, "reasoning", ""))]
                    ELSE imgs
         IN  AddScores(upd, Tail(entries))

CtrScoreKey(img) == Get(img, "ctr_score", 0)

\* does the try block of _score_image_ctr raise on this reply
ScoreRaises(reply) ==
    \/ reply.kind # "list"
    \/ \E i \in 1..Len(reply.scores) : ~reply.scores[i].isdict

\* the except branch: every image gets the default score
DefaultScored(imgs) ==
    [i \in 1..Len(imgs) |->
        Put(Put(imgs[i], "ctr_score", DefaultCtrScore),
            "ctr_reasoning", "Scoring unavailable")]

ScoreImageCtr(images, reply) ==
    IF images = <<>> THEN <<>>
    ELSE IF ValidImages(images) = <<>> THEN images
    ELSE IF ScoreRaises(reply) THEN DefaultScored(ValidImages(images))
    ELSE LET scored == AddScores(ValidImages(images), reply.scores)
         IN  SortDesc(scored,
                      [i \in 1..Len(scored) |-> CtrScoreKey(scored[i])])

ImagesToScore(orig, enh, v) ==
    << [url |-> orig, type |-> "original", variant_num |-> v],
       [url |-> enh, type |-> "enhanced", variant_num |-> v] >>

\* CTRComparison built from the scored images
Comparison(scored) ==
    [winner |-> scored[1].type,
     winner_score |-> Get(scored[1], "ctr_score", 0),
     winner_reasoning |-> Get(scored[1], "ctr_reasoning", ""),
     all_scores |-> [i \in 1..Len(scored) |->
                       [image_type |-> scored[i].type,
                        score |-> Get(scored[i], "ctr_score", 0),
                        reasoning |-> Get(scored[i], "ctr_reasoning", "")]]]

(***************************************************************************)
(* State of the variant generation (_rewrite_ad_variant, one per variant   *)
(* number), and of its callers' inputs.                                    *)
(***************************************************************************)
VARIABLES
    ad,                  \* the selected candidate text
    original_image_url,  \* url of the source image, or None
    image_analysis,      \* <<>> or <<analysis>>
    pc,                  \* per variant: where the run is
    iteration,           \* per variant: completed passes of the loop
    requests,            \* per variant: chat.sample calls made
    ad_copy,             \* per variant: the running copy
    enhanced_image_url,  \* per variant: result of the last image generation
    image_prompt_used,
    enhancement_notes,
    tool_calls,          \* per variant: tool calls of the reply still to run
    faults,              \* per variant: the external calls that failed so far
    rewritten            \* per variant: <<>> or <<the AdVariant returned>>

variantVars ==
    <<ad, original_image_url, image_analysis, pc, iteration, requests,
      ad_copy, enhanced_image_url, image_prompt_used, enhancement_notes,
      tool_calls, faults, rewritten>>

\* state of the critic (CTRCriticAgent.predict_async)
VARIABLES
    ads,            \* the candidate texts handed to predict
    ensemble_runs,  \* the configured ensemble size
    product,        \* the product name
    cpc,            \* where predict is
    extract_calls,  \* product extraction requests made
    results,        \* per candidate and run: <<>> or <<result of _eval_once>>
    scores,         \* per candidate: <<>> or <<its EnsembleCTRScore>>
    prediction,     \* <<>> or <<the CTRPredictionResult returned>>
    critic_faults,  \* the external calls of predict that failed so far
    best_result     \* <<>> or <<what remix_single_ad_and_get_best returns>>

criticVars ==
    <<ads, ensemble_runs, product, cpc, extract_calls, results, scores,
      prediction, critic_faults, best_result>>

\* state of the remix operation (remix_ads of v0, remix_ads_async of
\* auth-agents)
VARIABLES
    impl,            \* which implementation runs: "v0" or "auth"
    candidate_ads,   \* the candidate texts handed in
    remix_image_url, \* url of the source image, or None
    rpc,             \* where the remix operation is
    selection,       \* <<>> or <<the value returned by _select_best_ad>>
    selected_ad,     \* the text handed to the variants
    remix_analysis,  \* the value returned by _analyze_original_image
    fanout,          \* per variant: <<>> or <<the arguments it was started with>>
    remix_faults,    \* the external calls of the operation that failed
    raised_at        \* the place an exception left the operation from

remixVars ==
    <<impl, candidate_ads, remix_image_url, rpc, selection, selected_ad,
      remix_analysis, fanout, remix_faults, raised_at>>

\* state of one image comparison (_score_image_ctr and the comparison
\* that _rewrite_ad_variant builds from it)
VARIABLES
    variant_num,     \* the variant the comparison is made for
    spc,             \* where the comparison is
    score_reply,     \* <<>> or <<the reply of the scoring model>>
    scored_images,   \* the list returned by _score_image_ctr
    best_image_url,  \* the chosen image
    ctr_comparison   \* <<>> or <<the CTRComparison>>

scoreVars ==
    <<variant_num, spc, score_reply, scored_images, best_image_url,
      ctr_comparison>>

\* state of the ad queue of one user (temp_cache.py) and of the threads
\* that call it
VARIABLES
    file,        \* the persisted state: queue and served_keys
    tpc,         \* per thread: where its call is
    state,       \* per thread: the state its call loaded
    calls,       \* calls started so far
    added_keys,  \* the keys of the ads that append calls counted as added
    refused,     \* the keys of the ads that append calls did not enqueue
    popped,      \* the ads returned by pop calls, in order
    replaced     \* replace_queue calls made so far

queueVars ==
    <<file, tpc, state, calls, added_keys, refused, popped, replaced>>

\* state of one call of rank_ads (scoring.py)
VARIABLES
    rank_input,  \* the ad records handed in
    persona,     \* the persona record
    ranked       \* <<>> or <<the list returned>>

rankVars == <<rank_input, persona, ranked>>

\* state of one call of create_context_card (context_agent.py)
VARIABLES
    user_data,     \* per source: the posts handed in
    xpc,           \* where the call is
    card_reply,    \* <<>> or <<the reply of the chat request>>
    parsed,        \* <<>> or <<the parsed reply, or the fallback>>
    context_card   \* <<>> or <<the ContextCard returned>>

contextVars == <<user_data, xpc, card_reply, parsed, context_card>>

\* the conversations of the variant runs (the chat object of v0, the
\* messages list of auth-agents), one per run
VARIABLES
    chat,    \* per variant: the messages of its conversation, in order
    sampled,   \* per variant: the replies chat.sample returned, in order
    generated, \* per variant: what _generate_ad_image returned, in order
    finished,  \* the variants whose runs have returned, in order of return
    rewritten_ads  \* <<>> or <<the list of variants remix_ads returns>>

chatVars == <<chat, sampled, generated, finished, rewritten_ads>>

\* state of the OAuth login server (x_auth/server.py) and of the requests
\* it handles
VARIABLES
    state_to_verifier,  \* per state value: <<>> or <<the code verifier>>
    handler,            \* per request: where its handler is and its response
    issued,             \* per state value: the start_login calls that issued it
    accepted            \* per state value: the callbacks whose pop found it

oauthVars == <<state_to_verifier, handler, issued, accepted>>

vars ==
    <<variantVars, criticVars, remixVars, scoreVars, queueVars, rankVars,
      contextVars, chatVars, oauthVars>>

\* what an action of one component leaves alone
notVariantVars ==
    <<criticVars, remixVars, scoreVars, queueVars,
      rankVars, contextVars, chatVars, oauthVars>>
notCriticVars ==
    <<variantVars, remixVars, scoreVars, queueVars,
      rankVars, contextVars, chatVars, oauthVars>>
notRemixVars ==
    <<variantVars, criticVars, scoreVars, queueVars,
      rankVars, contextVars, chatVars, oauthVars>>
notScoreVars ==
    <<variantVars, criticVars, remixVars, queueVars,
      rankVars, contextVars, chatVars, oauthVars>>
notQueueVars ==
    <<variantVars, criticVars, remixVars, scoreVars,
      rankVars, contextVars, chatVars, oauthVars>>
notRankVars ==
    <<variantVars, criticVars, remixVars, scoreVars,
      queueVars, contextVars, chatVars, oauthVars>>
notContextVars ==
    <<variantVars, criticVars, remixVars, scoreVars,
      queueVars, rankVars, chatVars, oauthVars>>
notOAuthVars ==
    <<variantVars, criticVars, remixVars, scoreVars,
      queueVars, rankVars, contextVars, chatVars>>
\* what a step of a variant run leaves alone besides its conversation
notLoopVars ==
    <<criticVars, remixVars, scoreVars, queueVars, rankVars, contextVars,
      oauthVars>>

\* a loop whose try does not cover the parsing of the tool arguments
RewriteTryNoArgs == {"chat.sample", "_generate_ad_image"}

\* the places of _rewrite_ad_variant that the try of its loop covers
RewriteTry == {"chat.sample", "json.loads", "args.get", "_generate_ad_image"}

\* the places of _generate_ad_image that its try covers
ImageTry == {"image.sample"}

\* the places of _score_image_ctr that its try covers
ScoreTry == {"chat.sample", "json.loads", "for score_data"}

\* replies of chat.sample in the loop
Responses ==
    [content : Contents, tool_calls : SeqsUpTo(ToolCalls, MaxToolCalls)]

\* the place where running a tool call raises, or "none"
ToolCallRaises(tc) ==
    IF tc.name # "generate_ad_image" THEN "none"
    ELSE IF tc.arguments.kind = "invalid" THEN "json.loads"
    ELSE IF tc.arguments.kind = "array" THEN "args.get"
    ELSE "none"

\* the place where the scoring reply raises, or "none"
ScoreRaisesAt(reply) ==
    IF reply.kind = "error" THEN "chat.sample"
    ELSE IF reply.kind = "nonjson" THEN "json.loads"
    ELSE IF ScoreRaises(reply) THEN "for score_data"
    ELSE "none"

AdVariant(v, copy, best, enh, cmp) ==
    [content |-> copy,
     image_uri |-> best,
     enhanced_image_uri |-> enh,
     original_image_uri |-> original_image_url,
     image_prompt |-> image_prompt_used[v],
     enhancement_notes |-> enhancement_notes[v],
     ctr_comparison |-> cmp]

InitVariantLocals ==
    /\ iteration = [v \in Variants |-> 0]
    /\ requests = [v \in Variants |-> 0]
    /\ ad_copy = [v \in Variants |-> <<>>]
    /\ enhanced_image_url = [v \in Variants |-> NoneVal]
    /\ image_prompt_used = [v \in Variants |-> ""]
    /\ enhancement_notes = [v \in Variants |-> ""]
    /\ tool_calls = [v \in Variants |-> <<>>]
    /\ faults = [v \in Variants |-> {}]
    /\ rewritten = [v \in Variants |-> <<>>]

InitInputs ==
    /\ ad \in Ads
    /\ original_image_url \in {NoneVal, OriginalUrl}
    /\ image_analysis \in Analyses
    /\ original_image_url = NoneVal => image_analysis = <<>>

\* one call of _rewrite_ad_variant, for any variant number
InitVariant ==
    /\ InitInputs
    /\ InitVariantLocals
    /\ \E v \in Variants :
         pc = [w \in Variants |-> IF w = v THEN "await" ELSE "idle"]

\* chat.sample() raises
SampleFails(v) ==
    /\ pc[v] = "await"
    /\ requests' = [requests EXCEPT ![v] = @ + 1]
    /\ faults' = [faults EXCEPT ![v] = @ \cup {"chat"}]
    /\ pc' = [pc EXCEPT ![v] =
                IF "chat.sample" \in RewriteTry THEN "finish" ELSE "raised"]
    /\ UNCHANGED <<ad_copy, tool_calls>>
    /\ UNCHANGED <<ad, original_image_url, image_analysis, iteration,
                   enhanced_image_url, image_prompt_used, enhancement_notes,
                   rewritten>>

\* chat.sample() returns the reply r: the handling of its free text and
\* the branch on its tool calls
SampleReply(v, r) ==
    /\ pc[v] = "await"
    /\ requests' = [requests EXCEPT ![v] = @ + 1]
    /\ ad_copy' = [ad_copy EXCEPT ![v] = CopyAfterContent(@, r.content)]
    /\ tool_calls' = [tool_calls EXCEPT ![v] = r.tool_calls]
    /\ pc' = [pc EXCEPT ![v] =
                IF r.tool_calls # <<>> THEN "tools" ELSE "finish"]
    /\ UNCHANGED faults
    /\ UNCHANGED <<ad, original_image_url, image_analysis, iteration,
                   enhanced_image_url, image_prompt_used, enhancement_notes,
                   rewritten>>

\* response = chat.sample() and the handling of its free text
Sample(v) ==
    /\ pc[v] = "await"
    /\ \/ SampleFails(v)
       \/ \E r \in Responses : SampleReply(v, r)
    /\ UNCHANGED notVariantVars

\* a tool copy that yields to a copy already there
CopyAfterToolKeepsText(old, args) ==
    IF old = <<>> /\ Get(args, "ad_copy", <<>>) # <<>>
    THEN Get(args, "ad_copy", <<>>) ELSE old

\* ad_copy after "tool_ad_copy = args.get('ad_copy', ''); if tool_ad_copy:
\* ad_copy = tool_ad_copy"
CopyAfterTool(old, args) ==
    IF Get(args, "ad_copy", <<>>) # <<>>
    THEN Get(args, "ad_copy", <<>>) ELSE old

\* a loop that allows one pass more than max_iterations
AfterToolsOneMore(v) ==
    IF iteration[v] + 1 < max_iterations + 1 THEN "await" ELSE "finish"

\* where the loop goes once the tool calls of a reply are all run (continue)
AfterTools(v) ==
    IF iteration[v] + 1 < max_iterations THEN "await" ELSE "finish"

\* a url that survives a later generation without one
UrlAfterImageKeepsUrl(old, outcome) ==
    IF GenerateAdImage(outcome) = NoneVal THEN old
    ELSE GenerateAdImage(outcome)

\* "enhanced_image_url = self._generate_ad_image(...)"
UrlAfterImage(old, outcome) == GenerateAdImage(outcome)

\* one pass of "for tc in tool_calls", on the working state of the run,
\* where a call of _generate_ad_image ends as outcome
ExecToolOutcome(v, outcome) ==
    /\ pc[v] = "tools"
    /\ tool_calls[v] # <<>>
    /\ LET tc   == Head(tool_calls[v])
           rest == Tail(tool_calls[v])
           at   == ToolCallRaises(tc)
           args == tc.arguments.obj
           last == rest = <<>>
       IN
       IF at # "none"
       THEN /\ faults' = [faults EXCEPT ![v] = @ \cup {"args"}]
            /\ pc' = [pc EXCEPT ![v] =
                        IF at \in RewriteTry THEN "finish" ELSE "raised"]
            /\ tool_calls' = [tool_calls EXCEPT ![v] = <<>>]
            /\ UNCHANGED <<ad_copy, enhanced_image_url, image_prompt_used,
                           enhancement_notes, iteration>>
       ELSE
         /\ tool_calls' = [tool_calls EXCEPT ![v] = rest]
         /\ IF tc.name = "generate_ad_image"
            THEN /\ image_prompt_used' = [image_prompt_used EXCEPT ![v] =
                                            Get(args, "image_prompt", "")]
                 /\ enhancement_notes' = [enhancement_notes EXCEPT ![v] =
                                            Get(args, "enhancement_notes", "")]
                 /\ ad_copy' = [ad_copy EXCEPT ![v] =
                                  CopyAfterTool(@, args)]
                 /\ IF outcome = "error" /\ "image.sample" \notin ImageTry
                    THEN /\ pc' = [pc EXCEPT ![v] =
                                     IF "_generate_ad_image" \in RewriteTry
                                     THEN "finish" ELSE "raised"]
                         /\ UNCHANGED <<enhanced_image_url, iteration>>
                    ELSE /\ enhanced_image_url' =
                              [enhanced_image_url EXCEPT ![v] =
                                 UrlAfterImage(@, outcome)]
                         /\ iteration' = [iteration EXCEPT ![v] =
                                            IF last THEN @ + 1 ELSE @]
                         /\ pc' = [pc EXCEPT ![v] =
                                     IF last THEN AfterTools(v) ELSE @]
                 /\ faults' = [faults EXCEPT ![v] =
                                 IF outcome = "url" THEN @
                                 ELSE @ \cup {"image"}]
            ELSE /\ iteration' = [iteration EXCEPT ![v] =
                                    IF last THEN @ + 1 ELSE @]
                 /\ pc' = [pc EXCEPT ![v] = IF last THEN AfterTools(v) ELSE @]
                 /\ UNCHANGED <<ad_copy, enhanced_image_url,
                                image_prompt_used, enhancement_notes, faults>>
    /\ UNCHANGED <<ad, original_image_url, image_analysis, requests,
                   rewritten>>

\* one pass of "for tc in tool_calls", on the working state of the run
ExecToolStep(v) ==
    /\ pc[v] = "tools"
    /\ \E outcome \in ImageOutcomes : ExecToolOutcome(v, outcome)

\* one pass of "for tc in tool_calls"
ExecTool(v) == ExecToolStep(v) /\ UNCHANGED notVariantVars

\* the copy after "if not ad_copy: ad_copy = ad"
Fallback(copy, original) == IF copy = <<>> THEN original ELSE copy

\* a comparison that does not look at the copy
WantsComparisonAnyCopy(orig, enh, copy) ==
    orig # NoneVal /\ enh # NoneVal

\* is the comparison of the two images made
WantsComparison(orig, enh, copy) ==
    orig # NoneVal /\ enh # NoneVal /\ copy # <<>>

\* a chosen image that falls back to the source image
UncomparedImageOrSource(orig, enh) == IF enh = NoneVal THEN orig ELSE enh

\* "best_image_url = enhanced_image_url": the chosen image when no
\* comparison is made
UncomparedImage(orig, enh) == enh

\* after the loop: the fallback copy, then either the comparison call or
\* the return without comparison
FinishStep(v) ==
    /\ pc[v] = "finish"
    /\ LET copy == Fallback(ad_copy[v], ad) IN
       /\ ad_copy' = [ad_copy EXCEPT ![v] = copy]
       /\ IF WantsComparison(original_image_url, enhanced_image_url[v], copy)
          THEN /\ pc' = [pc EXCEPT ![v] = "score"]
               /\ UNCHANGED rewritten
          ELSE /\ pc' = [pc EXCEPT ![v] = "done"]
               /\ rewritten' = [rewritten EXCEPT ![v] =
                    <<AdVariant(v, copy,
                                UncomparedImage(original_image_url,
                                                enhanced_image_url[v]),
                                enhanced_image_url[v], <<>>)>>]
    /\ UNCHANGED <<ad, original_image_url, image_analysis, iteration,
                   requests, enhanced_image_url, image_prompt_used,
                   enhancement_notes, tool_calls, faults>>

Finish(v) == FinishStep(v) /\ UNCHANGED notVariantVars

\* the image that _rewrite_ad_variant returns as image_uri
BestImageUrl(scored, enh) == IF scored # <<>> THEN scored[1].url ELSE enh

\* the comparison call, answered by one of replies, and the return
ScoreImagesFrom(v, replies) ==
    /\ pc[v] = "score"
    /\ \E reply \in replies :
       LET at     == ScoreRaisesAt(reply)
           scored == ScoreImageCtr(
                        ImagesToScore(original_image_url,
                                      enhanced_image_url[v], v), reply)
       IN
       /\ faults' = [faults EXCEPT ![v] =
                       IF at = "none" THEN @ ELSE @ \cup {"score"}]
       /\ IF at # "none" /\ at \notin ScoreTry
          THEN /\ pc' = [pc EXCEPT ![v] = "raised"]
               /\ UNCHANGED rewritten
          ELSE /\ pc' = [pc EXCEPT ![v] = "done"]
               /\ rewritten' = [rewritten EXCEPT ![v] =
                    <<AdVariant(v, ad_copy[v],
                                BestImageUrl(scored, enhanced_image_url[v]),
                                enhanced_image_url[v],
                                IF scored # <<>> THEN <<Comparison(scored)>>
                                ELSE <<>>)>>]
    /\ UNCHANGED <<ad, original_image_url, image_analysis, iteration,
                   requests, ad_copy, enhanced_image_url, image_prompt_used,
                   enhancement_notes, tool_calls>>

\* the comparison call and the return
ScoreImages(v) ==
    ScoreImagesFrom(v, ScoreReplies) /\ UNCHANGED notVariantVars

(***************************************************************************)
(* The ensemble CTR critic (CTRCriticAgent).  Numbers are fixed point,     *)
(* One = 1.0.                                                              *)
(***************************************************************************)
\* three decimals
One == 10 * 10 * 10

\* the fallback of _eval_once
NeutralTriple ==
    [click_probability |-> 500, attention_score |-> 500,
     relevance_score |-> 500]

\* the JSON objects a run can answer: a triple in [0,1]^3 and an object
\* that lacks relevance_score
EvalObjects ==
    { [click_probability |-> 900, attention_score |-> 500,
       relevance_score |-> 500],
      [click_probability |-> 900, attention_score |-> 500] }

\* replies of one evaluation request: a transport failure, text that is
\* not JSON, or a JSON object
EvalReplies ==
    {[kind |-> k, obj |-> NeutralTriple] : k \in {"transport", "nonjson"}}
    \cup {[kind |-> "json", obj |-> o] : o \in EvalObjects}

\* what _eval_once returns for a reply, with the note whether the except
\* branch produced it
EvalOnceResult(reply) ==
    IF reply.kind = "json"
    THEN [failed |-> FALSE, value |-> reply.obj]
    ELSE [failed |-> TRUE, value |-> NeutralTriple]

TripleKeys == {"click_probability", "attention_score", "relevance_score"}

RECURSIVE SumSeq(_)
SumSeq(s) == IF s = <<>> THEN 0 ELSE Head(s) + SumSeq(Tail(s))

\* statistics.mean
Mean(s) == SumSeq(s) \div Len(s)

\* floor of the square root
ISqrt(n) == CHOOSE r \in 0..(2 * One) : r * r <= n /\ n < (r + 1) * (r + 1)

\* a standard deviation with the divisor n
StdevPopulation(s) ==
    LET n  == Len(s)
        sq == [i \in 1..n |-> s[i] * s[i]]
    IN  ISqrt((n * SumSeq(sq) - SumSeq(s) * SumSeq(s)) \div (n * n))

\* statistics.stdev: the sample standard deviation (divisor n - 1)
Stdev(s) ==
    LET n  == Len(s)
        sq == [i \in 1..n |-> s[i] * s[i]]
    IN  ISqrt((n * SumSeq(sq) - SumSeq(s) * SumSeq(s)) \div (n * (n - 1)))

safe_std(s) == IF Len(s) > 1 THEN Stdev(s) ELSE 0

\* a composite whose weights do not add up to one
CtrHeavyAttention(c, a, r) == (c * 5 + a * 5 + r * 2) \div 10

\* the composite of one run: c * 0.5 + a * 0.3 + r * 0.2
Ctr(c, a, r) == (c * 5 + a * 3 + r * 2) \div 10

\* the text of the candidate at 0-based position idx
AdText(idx) == <<"ad", idx>>

\* does "r[key] for r in results" raise for candidate i
AggregateRaises(res) ==
    \E k \in 1..Len(res) : ~(TripleKeys \subseteq DOMAIN res[k][1].value)

\* an aggregation that drops the runs that fell back to the neutral triple
EnsembleScoreDropFailed(text, ad_idx, res) ==
    LET kept   == SelectSeq(res, LAMBDA r : ~r[1].failed)
        used   == IF kept = <<>> THEN res ELSE kept
        clicks == [k \in 1..Len(used) |-> used[k][1].value.click_probability]
        attns  == [k \in 1..Len(used) |-> used[k][1].value.attention_score]
        rels   == [k \in 1..Len(used) |-> used[k][1].value.relevance_score]
        ctrs   == [k \in 1..Len(used) |-> Ctr(clicks[k], attns[k], rels[k])]
    IN  [ad_index |-> ad_idx,
         ad_text |-> text,
         click_prob_mean |-> Mean(clicks),
         attention_mean |-> Mean(attns),
         relevance_mean |-> Mean(rels),
         ctr_mean |-> Mean(ctrs),
         click_prob_std |-> safe_std(clicks),
         ctr_std |-> safe_std(ctrs),
         num_runs |-> Len(kept)]

\* the EnsembleCTRScore of candidate i (0-based ad_index) from its results
EnsembleScore(text, ad_idx, res) ==
    LET clicks == [k \in 1..Len(res) |-> res[k][1].value.click_probability]
        attns  == [k \in 1..Len(res) |-> res[k][1].value.attention_score]
        rels   == [k \in 1..Len(res) |-> res[k][1].value.relevance_score]
        ctrs   == [k \in 1..Len(res) |-> Ctr(clicks[k], attns[k], rels[k])]
    IN  [ad_index |-> ad_idx,
         ad_text |-> text,
         click_prob_mean |-> Mean(clicks),
         attention_mean |-> Mean(attns),
         relevance_mean |-> Mean(rels),
         ctr_mean |-> Mean(ctrs),
         click_prob_std |-> safe_std(clicks),
         ctr_std |-> safe_std(ctrs),
         num_runs |-> Len(res)]

CtrMeanKey(sc) == sc.ctr_mean

Min(a, b) == IF a <= b THEN a ELSE b

\* consistency = 1 - min(ctr_std * 2, 0.4)
Consistency(ctr_std) == One - Min(ctr_std * 2, 400)

\* a confidence without the cap at 0.95
ConfidenceOfNoCap(gap, consistency) ==
    ((400 + gap * 2) * consistency) \div One + 200

\* min((0.4 + gap * 2) * consistency + 0.2, 0.95)
ConfidenceOf(gap, consistency) ==
    Min(((400 + gap * 2) * consistency) \div One + 200, 950)

BaselineConfidence == 700

\* the confidence of a ranked list of scores
Confidence(sorted) ==
    IF Len(sorted) >= 2
    THEN ConfidenceOf(sorted[1].ctr_mean - sorted[2].ctr_mean,
                      Consistency(sorted[1].ctr_std))
    ELSE BaselineConfidence

InitCriticIdle ==
    /\ ads = <<>>
    /\ ensemble_runs = 1
    /\ product = ""
    /\ cpc = "idle"
    /\ extract_calls = 0
    /\ results = <<>>
    /\ scores = <<>>
    /\ prediction = <<>>
    /\ critic_faults = {}
    /\ best_result = <<>>

\* a call of predict: any number of candidates, any ensemble size, with or
\* without a product name
InitCritic ==
    /\ \E n \in 0..MaxAds : ads = [i \in 1..n |-> AdText(i - 1)]
    /\ ensemble_runs \in 1..MaxRuns
    /\ product \in {"", "given"}
    /\ cpc = "product"
    /\ extract_calls = 0
    /\ results = [i \in 1..Len(ads) |-> [k \in 1..ensemble_runs |-> <<>>]]
    /\ scores = [i \in 1..Len(ads) |-> <<>>]
    /\ prediction = <<>>
    /\ critic_faults = {}
    /\ best_result = <<>>

\* the triples a run can answer: every corner of [0,1]^3 in attention and
\* relevance, and click probabilities inside, at the ends of and beyond
\* [0,1]
RunTriples ==
    [click_probability : {0, 400, One, One + 500},
     attention_score : {0, One},
     relevance_score : {0, One}]

\* _ensemble_eval of one candidate at the point where the gather of its
\* runs has returned
InitEnsemble ==
    /\ ads = <<AdText(0)>>
    /\ ensemble_runs \in 1..MaxRuns
    /\ product = "given"
    /\ cpc = "gather"
    /\ extract_calls = 0
    /\ \E vals \in [1..ensemble_runs -> RunTriples] :
         results = <<[k \in 1..ensemble_runs |->
                        <<[failed |-> FALSE, value |-> vals[k]]>>]>>
    /\ scores = <<<<>>>>
    /\ prediction = <<>>
    /\ critic_faults = {}
    /\ best_result = <<>>

InitVariantIdle ==
    /\ ad = <<"A">>
    /\ original_image_url = NoneVal
    /\ image_analysis = <<>>
    /\ InitVariantLocals
    /\ pc = [v \in Variants |-> "idle"]

\* "if not product: product = await self._extract_product(...)": without
\* candidates _extract_product returns "" at once; otherwise it sends one
\* request, whose failure gives "" and whose reply gives the stripped text
ExtractProduct ==
    /\ cpc = "product"
    /\ cpc' = "gather"
    /\ IF product = "" /\ ads # <<>>
       THEN /\ extract_calls' = extract_calls + 1
            /\ \/ /\ product' = ""
                  /\ critic_faults' = critic_faults \cup {"extract"}
               \/ /\ product' \in {"", "extracted"}
                  /\ UNCHANGED critic_faults
       ELSE UNCHANGED <<extract_calls, product, critic_faults>>
    /\ UNCHANGED notCriticVars
    /\ UNCHANGED <<ads, ensemble_runs, results, scores, prediction,
                   best_result>>

\* a wait that returns as soon as one branch has, with the values so far
GatherFirstCompleted(branches) ==
    [done   |-> \E j \in 1..Len(branches) : branches[j] # <<>>,
     values |-> SelectSeq(branches, LAMBDA b : b # <<>>)]

\* "await asyncio.gather(*branches)": returns when every branch has
\* returned, with the values in the order of the branches
Gather(branches) ==
    [done   |-> \A j \in 1..Len(branches) : branches[j] # <<>>,
     values |-> branches]

\* one _eval_once of candidate i completes
EvalOnce(i, k) ==
    /\ cpc = "gather"
    /\ results[i][k] = <<>>
    /\ \E reply \in EvalReplies :
         results' = [results EXCEPT ![i][k] = <<EvalOnceResult(reply)>>]
    /\ UNCHANGED notCriticVars
    /\ UNCHANGED <<ads, ensemble_runs, product, cpc, extract_calls, scores,
                   prediction, critic_faults, best_result>>

\* the gather of candidate i has returned: aggregate, or raise KeyError
EnsembleEval(i) ==
    /\ cpc = "gather"
    /\ scores[i] = <<>>
    /\ Gather(results[i]).done
    /\ LET res == Gather(results[i]).values IN
       IF AggregateRaises(res)
       THEN /\ cpc' = "raised"
            /\ UNCHANGED scores
       ELSE /\ scores' = [scores EXCEPT ![i] =
                            <<EnsembleScore(ads[i], i - 1, res)>>]
            /\ UNCHANGED cpc
    /\ UNCHANGED notCriticVars
    /\ UNCHANGED <<ads, ensemble_runs, product, extract_calls, results,
                   prediction, critic_faults, best_result>>

\* the outer gather has returned: rank, compute the confidence, return
Predict ==
    /\ cpc = "gather"
    /\ Gather(scores).done
    /\ LET gathered == Gather(scores).values
           sorted == SortDesc([i \in 1..Len(gathered) |-> gathered[i][1]],
                              [i \in 1..Len(gathered) |->
                                 CtrMeanKey(gathered[i][1])])
       IN  IF sorted = <<>>
           THEN /\ cpc' = "raised"
                /\ UNCHANGED prediction
           ELSE /\ cpc' = "done"
                /\ prediction' =
                     <<[best_ad_index |-> sorted[1].ad_index,
                        best_ad_text |-> sorted[1].ad_text,
                        confidence |-> Confidence(sorted),
                        scores |-> sorted,
                        total_simulations |->
                            SumSeq([i \in 1..Len(sorted) |->
                                      sorted[i].num_runs])]>>
    /\ UNCHANGED notCriticVars
    /\ UNCHANGED <<ads, ensemble_runs, product, extract_calls, results,
                   scores, critic_faults, best_result>>

\* the variants handed to the critic: position in rewritten_ads and text
VariantList ==
    [i \in 1..Len(ads) |-> [position |-> i - 1, content |-> ads[i]]]

\* a choice that reads best_ad_index as a position in the ranked scores
BestOfRanked(variants, p) ==
    [best_variant |-> variants[p.best_ad_index + 1],
     ctr_score    |-> p.scores[p.best_ad_index + 1].ctr_mean]

\* "best_variant = rewritten_ads[best_index]; best_score = next((s for s
\* in ctr_prediction.scores if s.ad_index == best_index), None)"
BestOf(variants, p) ==
    LET best_index == p.best_ad_index
        found == SelectSeq(p.scores, LAMBDA sc : sc.ad_index = best_index)
    IN  [best_variant |-> variants[best_index + 1],
         ctr_score    |-> IF found # <<>> THEN found[1].ctr_mean ELSE 0]

\* remix_single_ad_and_get_best after predict has returned
PickBest ==
    /\ cpc = "done"
    /\ best_result = <<>>
    /\ best_result' = <<BestOf(VariantList, prediction[1])>>
    /\ UNCHANGED notCriticVars
    /\ UNCHANGED <<ads, ensemble_runs, product, cpc, extract_calls, results,
                   scores, prediction, critic_faults>>

\* the critic is called on the texts of the three variants of one remix
InitPick ==
    /\ ads = [i \in 1..NumVariants |-> AdText(i - 1)]
    /\ ensemble_runs = 1
    /\ product = "given"
    /\ cpc = "product"
    /\ extract_calls = 0
    /\ results = [i \in 1..Len(ads) |-> [k \in 1..ensemble_runs |-> <<>>]]
    /\ scores = [i \in 1..Len(ads) |-> <<>>]
    /\ prediction = <<>>
    /\ critic_faults = {}
    /\ best_result = <<>>

(***************************************************************************)
(* The remix operation: selection of the candidate, analysis of the source *)
(* image, start of the three variants (remix_ads_async of auth-agents,     *)
(* remix_ads of v0).                                                       *)
(***************************************************************************)
\* at most this many candidate texts are handed in
MaxCandidates == 6

\* "if len(ads) > 5: ads = ads[:5]"
SelectionCap == 5

\* len(DEFAULT_ADS)
NumDefaultAds == 9

\* the text of the i-th candidate handed in
CandText(i) == <<"ad", i>>

DefaultAds == [i \in 1..NumDefaultAds |-> <<"default", i>>]

\* a reply text is a sequence of tokens: a three-backtick fence, the word
\* json, white space, other words, and JS, a complete JSON document
FENCE == "fence"
JS == "J"
JsonTag == "json"

\* str.split(sep) for a separator token
RECURSIVE SplitOn(_, _)
SplitOn(s, sep) ==
    IF \A i \in 1..Len(s) : s[i] # sep
    THEN <<s>>
    ELSE LET i == CHOOSE k \in 1..Len(s) :
                     s[k] = sep /\ \A j \in 1..(k - 1) : s[j] # sep
         IN  <<SubSeq(s, 1, i - 1)>> \o SplitOn(SubSeq(s, i + 1, Len(s)), sep)

\* the text handed to json.loads: the stripped reply, or what stands
\* between its first two fences without a leading "json"
ExtractJson(raw) ==
    LET content == PyStrip(raw, Whitespace)
    IN  IF \E i \in 1..Len(content) : content[i] = FENCE
        THEN LET inner == SplitOn(content, FENCE)[2]
                 body  == IF inner # <<>> /\ Head(inner) = JsonTag
                          THEN Tail(inner) ELSE inner
             IN  PyStrip(body, Whitespace)
        ELSE content

\* does json.loads raise on this text
JsonLoadsRaises(text) == text # <<JS>>

\* texts of a chat reply
ReplyContents ==
    { <<JS>>,
      <<FENCE, JsonTag, NL, JS, NL, FENCE>>,
      <<"x", SP, FENCE, JS, FENCE>>,
      <<JsonTag, SP, JS>>,
      <<"x">>,
      <<>> }

\* a reply of a chat completion request: a transport failure, or a text
\* whose JSON document, where it has one, is doc
ChatReplies(docs) ==
    {[kind |-> "transport", content |-> <<>>, doc |-> d] : d \in docs}
    \cup {[kind |-> "ok", content |-> c, doc |-> d] :
            c \in ReplyContents, d \in docs}

\* does the try block around the request and json.loads raise
ReplyFails(reply) ==
    reply.kind = "transport" \/ JsonLoadsRaises(ExtractJson(reply.content))

\* JSON documents the selection model can answer for the candidates:
\* the full object, an object whose text is not one of the candidates, an
\* object with missing fields, an array
SelectionDocs(cands) ==
    { [kind |-> "object",
       obj |-> [selected_ad_index |-> Len(cands) - 1,
                selected_ad_text |-> cands[Len(cands)],
                reasoning |-> "r"]],
      [kind |-> "object",
       obj |-> [selected_ad_index |-> 0,
                selected_ad_text |-> CandText(0),
                reasoning |-> "r"]],
      [kind |-> "object", obj |-> [selected_ad_index |-> 0]],
      [kind |-> "array", obj |-> [selected_ad_index |-> 0]] }

\* a fallback that answers with the last candidate
FallbackSelectionLast(cands) ==
    [kind |-> "object",
     obj |-> [selected_ad_index |-> Len(cands) - 1,
              selected_ad_text |-> IF cands # <<>> THEN cands[Len(cands)] ELSE <<>>,
              reasoning |-> "Fallback due to error"]]

\* the except branch of _select_best_ad
FallbackSelection(cands) ==
    [kind |-> "object",
     obj |-> [selected_ad_index |-> 0,
              selected_ad_text |-> IF cands # <<>> THEN cands[1] ELSE <<>>,
              reasoning |-> "Fallback due to error"]]

\* _select_best_ad: the parsed reply, whatever its shape, or the fallback
SelectBestAd(cands, reply) ==
    IF ReplyFails(reply) THEN FallbackSelection(cands) ELSE reply.doc

\* JSON documents the vision model can answer: an object with the fields,
\* an object with none of them, an array
AnalysisDocs ==
    { [kind |-> "object",
       obj |-> [description |-> "d", key_elements |-> <<"logo">>,
                style_notes |-> "bold"]],
      [kind |-> "object", obj |-> [description |-> "d"]],
      [kind |-> "array", obj |-> [description |-> "d"]] }

\* no analysis (None)
NoAnalysis == [kind |-> "none", obj |-> [description |-> ""]]

\* the placeholder of the except branch of auth-agents
PlaceholderAnalysis ==
    [kind |-> "object",
     obj |-> [description |-> "Original ad image", strengths |-> <<>>,
              improvement_suggestions |-> <<>>, key_elements |-> <<>>,
              style_notes |-> "unknown"]]

\* v0 _analyze_original_image: an ImageAnalysis with defaults for the
\* missing fields, None when anything in the try raises (data.get on an
\* array included)
AnalyzeV0(reply) ==
    IF ReplyFails(reply) \/ reply.doc.kind # "object" THEN NoAnalysis
    ELSE [kind |-> "object",
          obj |-> [description |->
                       Get(reply.doc.obj, "description", "Original ad image"),
                   strengths |-> Get(reply.doc.obj, "strengths", <<>>),
                   improvement_suggestions |->
                       Get(reply.doc.obj, "improvement_suggestions", <<>>),
                   key_elements |-> Get(reply.doc.obj, "key_elements", <<>>),
                   style_notes |->
                       Get(reply.doc.obj, "style_notes", "unknown")]]

\* auth-agents _analyze_original_image: the parsed reply, whatever its
\* shape, or the placeholder
AnalyzeAuth(reply) ==
    IF ReplyFails(reply) THEN PlaceholderAnalysis ELSE reply.doc

\* "if image_analysis:"
HasAnalysis(a) == a.kind = "object" /\ DOMAIN a.obj # {}

\* the image section of the rewrite prompt
ImageContext(url, a) ==
    IF url # NoneVal /\ HasAnalysis(a) THEN "analysis"
    ELSE IF url # NoneVal THEN "url"
    ELSE "none"

\* is the reference clause appended to the image prompt
ReferenceClause(a) ==
    /\ HasAnalysis(a)
    /\ \/ Get(a.obj, "key_elements", <<>>) # <<>>
       \/ Get(a.obj, "style_notes", "") # ""

InitRemixIdle ==
    /\ impl = "v0"
    /\ candidate_ads = <<>>
    /\ remix_image_url = NoneVal
    /\ rpc = "idle"
    /\ selection = <<>>
    /\ selected_ad = <<>>
    /\ remix_analysis = NoAnalysis
    /\ fanout = [v \in Variants |-> <<>>]
    /\ remix_faults = {}
    /\ raised_at = ""

\* a call of the remix operation of either implementation
InitRemix ==
    /\ impl \in {"v0", "auth"}
    /\ \E n \in 0..MaxCandidates :
         candidate_ads = [i \in 1..n |-> CandText(i)]
    /\ remix_image_url \in {NoneVal, OriginalUrl}
    /\ rpc = "start"
    /\ selection = <<>>
    /\ selected_ad = <<>>
    /\ remix_analysis = NoAnalysis
    /\ fanout = [v \in Variants |-> <<>>]
    /\ remix_faults = {}
    /\ raised_at = ""

\* auth-agents: the guard on the candidates, the cap, _select_best_ad and
\* "selected_ad = selection.get('selected_ad_text', ads[0])"
SelectBest ==
    /\ rpc = "start"
    /\ impl = "auth"
    /\ IF candidate_ads = <<>>
       THEN /\ rpc' = "rejected"
            /\ UNCHANGED <<candidate_ads, selection, selected_ad,
                           remix_faults, raised_at>>
       ELSE LET ads5 == SubSeq(candidate_ads, 1,
                               Min(Len(candidate_ads), SelectionCap))
            IN  \E reply \in ChatReplies(SelectionDocs(ads5)) :
                LET sel == SelectBestAd(ads5, reply) IN
                /\ candidate_ads' = ads5
                /\ selection' = <<sel>>
                /\ remix_faults' = remix_faults \cup
                      (IF ReplyFails(reply) THEN {"select"} ELSE {})
                /\ IF sel.kind # "object"
                   THEN /\ rpc' = "raised"
                        /\ raised_at' = "selection.get"
                        /\ UNCHANGED selected_ad
                   ELSE /\ rpc' = "analyze"
                        /\ selected_ad' =
                             Get(sel.obj, "selected_ad_text", ads5[1])
                        /\ UNCHANGED raised_at
    /\ UNCHANGED <<impl, remix_image_url, remix_analysis, fanout>>
    /\ UNCHANGED notRemixVars

\* v0: the candidates (DEFAULT_ADS when there are none) are ranked and the
\* text of the first is taken
SelectRanked ==
    /\ rpc = "start"
    /\ impl = "v0"
    /\ LET pool == IF candidate_ads = <<>> THEN DefaultAds ELSE candidate_ads
       IN  /\ candidate_ads' = pool
           /\ \E i \in 1..Len(pool) : selected_ad' = pool[i]
    /\ rpc' = "analyze"
    /\ UNCHANGED <<impl, remix_image_url, selection, remix_analysis, fanout,
                   remix_faults, raised_at>>
    /\ UNCHANGED notRemixVars

\* step 2: the analysis of the source image, when there is one
AnalyzeOriginalImage ==
    /\ rpc = "analyze"
    /\ IF remix_image_url = NoneVal
       THEN /\ rpc' = "fanout"
            /\ UNCHANGED <<remix_analysis, remix_faults, raised_at>>
       ELSE \E reply \in ChatReplies(AnalysisDocs) :
            LET a == IF impl = "v0" THEN AnalyzeV0(reply)
                     ELSE AnalyzeAuth(reply)
            IN  /\ remix_analysis' = a
                /\ remix_faults' = remix_faults \cup
                      (IF ReplyFails(reply) THEN {"analyze"} ELSE {})
                \* auth-agents prints image_analysis.get('description', ..)
                /\ IF impl = "auth" /\ a.kind # "object"
                   THEN rpc' = "raised" /\ raised_at' = "image_analysis.get"
                   ELSE rpc' = "fanout" /\ UNCHANGED raised_at
    /\ UNCHANGED <<impl, candidate_ads, remix_image_url, selection,
                   selected_ad, fanout>>
    /\ UNCHANGED notRemixVars

\* step 3: the three variants are started with the selected text, the
\* source image and the analysis
StartVariants ==
    /\ rpc = "fanout"
    /\ rpc' = "running"
    /\ fanout' = [v \in Variants |->
                    <<[ad |-> selected_ad,
                       original_image_url |-> remix_image_url,
                       image_context |->
                           ImageContext(remix_image_url, remix_analysis),
                       reference |-> ReferenceClause(remix_analysis)]>>]
    /\ UNCHANGED <<impl, candidate_ads, remix_image_url, selection,
                   selected_ad, remix_analysis, remix_faults, raised_at>>
    /\ UNCHANGED notRemixVars

(***************************************************************************)
(* One image comparison on its own: the scoring call for the source image  *)
(* and the generated image of a variant, and the comparison built from it. *)
(***************************************************************************)
InitScoreIdle ==
    /\ variant_num = 1
    /\ spc = "idle"
    /\ score_reply = <<>>
    /\ scored_images = <<>>
    /\ best_image_url = NoneVal
    /\ ctr_comparison = <<>>

\* the comparison is due: both images exist; best_image_url starts as the
\* generated image
InitScore ==
    /\ variant_num \in Variants
    /\ spc = "call"
    /\ score_reply = <<>>
    /\ scored_images = <<>>
    /\ best_image_url = GeneratedUrl
    /\ ctr_comparison = <<>>

\* scored_images = self._score_image_ctr(images_to_score, ...)
ScoreImageCtrCall ==
    /\ spc = "call"
    /\ \E reply \in ScoreReplies :
         /\ score_reply' = <<reply>>
         /\ scored_images' =
              ScoreImageCtr(ImagesToScore(OriginalUrl, GeneratedUrl,
                                          variant_num), reply)
    /\ spc' = "scored"
    /\ UNCHANGED <<variant_num, best_image_url, ctr_comparison>>
    /\ UNCHANGED notScoreVars

\* "if scored_images:" the first image is chosen and the CTRComparison is
\* built
BuildComparison ==
    /\ spc = "scored"
    /\ spc' = "done"
    /\ best_image_url' = BestImageUrl(scored_images, best_image_url)
    /\ ctr_comparison' = IF scored_images # <<>>
                         THEN <<Comparison(scored_images)>> ELSE <<>>
    /\ UNCHANGED <<variant_num, score_reply, scored_images>>
    /\ UNCHANGED notScoreVars

(***************************************************************************)
(* The per-user ad queue (temp_cache.py).  load_queue_state and            *)
(* save_queue_state each hold the module lock for their own body only, so  *)
(* a load and a save are one step each and other threads run in between.   *)
(***************************************************************************)
\* threads that call the queue helpers
MaxThreads == 2
\* calls started in one run
MaxCalls == 3
\* ads handed to one append_ads_to_queue or replace_queue call
MaxAppend == 2

Threads == 1..MaxThreads

\* ad keys; "" is an ad without ad_key
AdKeys == {"k1", "k2"}
NoKey == ""

\* the ads: the ad_key is all the queue looks at
QueueAds == {[ad_key |-> k] : k \in AdKeys \cup {NoKey}}

\* _default_state: empty queue, empty served_keys
DefaultState == [queue |-> <<>>, served_keys |-> <<>>]

Range(s) == {s[i] : i \in 1..Len(s)}

\* the ad keys of a list of ads
KeysOf(queue) == {queue[i].ad_key : i \in 1..Len(queue)} \ {NoKey}

\* list(dict.fromkeys(keys)): the first occurrence of every key, in order
RECURSIVE Dedup(_)
Dedup(keys) ==
    IF keys = <<>> THEN <<>>
    ELSE LET front == Dedup(SubSeq(keys, 1, Len(keys) - 1))
             last  == keys[Len(keys)]
         IN  IF last \in Range(front) THEN front ELSE Append(front, last)

\* a loop that does not look at the served keys
RECURSIVE AppendLoopIgnoreServed(_, _, _, _, _)
AppendLoopIgnoreServed(queue, existing, served, new_ads, added) ==
    IF new_ads = <<>> THEN [queue |-> queue, added |-> added]
    ELSE LET a == Head(new_ads)
             k == a.ad_key
         IN  IF k # NoKey /\ k \in existing
             THEN AppendLoopIgnoreServed(queue, existing, served,
                                         Tail(new_ads), added)
             ELSE AppendLoopIgnoreServed(
                      Append(queue, a),
                      IF k # NoKey THEN existing \cup {k} ELSE existing,
                      served, Tail(new_ads), Append(added, a))

\* the loop "for ad in ads" of append_ads_to_queue; added lists the ads it
\* counts
RECURSIVE AppendLoop(_, _, _, _, _)
AppendLoop(queue, existing, served, new_ads, added) ==
    IF new_ads = <<>> THEN [queue |-> queue, added |-> added]
    ELSE LET a == Head(new_ads)
             k == a.ad_key
         IN  IF k # NoKey /\ (k \in served \/ k \in existing)
             THEN AppendLoop(queue, existing, served, Tail(new_ads), added)
             ELSE AppendLoop(Append(queue, a),
                             IF k # NoKey THEN existing \cup {k}
                             ELSE existing,
                             served, Tail(new_ads), Append(added, a))

\* append_ads_to_queue on a loaded state
AppendAds(st, new_ads) ==
    AppendLoop(st.queue, KeysOf(st.queue), Range(st.served_keys), new_ads,
               <<>>)

\* the keys of the ads of a call that the loop skips: served, queued, or
\* given more than once
Refused(st, new_ads) ==
    {k \in KeysOf(new_ads) :
        \/ k \in Range(st.served_keys)
        \/ k \in KeysOf(st.queue)
        \/ Cardinality({i \in 1..Len(new_ads) : new_ads[i].ad_key = k}) > 1}

\* pop_next_ad on a loaded state with a queue that is not empty
PopNext(st) ==
    LET a == Head(st.queue)
    IN  [ad |-> a,
         state |-> [queue |-> Tail(st.queue),
                    served_keys |-> IF a.ad_key # NoKey
                                    THEN Append(st.served_keys, a.ad_key)
                                    ELSE st.served_keys]]

InitQueueVars ==
    /\ file = DefaultState
    /\ state = [t \in Threads |-> DefaultState]
    /\ calls = 0
    /\ added_keys = {}
    /\ refused = {}
    /\ popped = <<>>
    /\ replaced = 0

InitQueueIdle ==
    /\ InitQueueVars
    /\ tpc = [t \in Threads |-> "off"]

\* the cache file of the user does not exist yet; every thread is free to
\* call
InitQueue ==
    /\ InitQueueVars
    /\ tpc = [t \in Threads |-> "idle"]

\* the cache file does not exist yet; one thread calls
InitQueueOwner ==
    /\ InitQueueVars
    /\ tpc = [t \in Threads |-> IF t = 1 THEN "idle" ELSE "off"]

\* append_ads_to_queue, up to the return of load_queue_state
AppendLoad(t) ==
    /\ tpc[t] = "idle"
    /\ calls < MaxCalls
    /\ calls' = calls + 1
    /\ state' = [state EXCEPT ![t] = file]
    /\ tpc' = [tpc EXCEPT ![t] = "append"]
    /\ UNCHANGED <<file, added_keys, refused, popped, replaced>>
    /\ UNCHANGED notQueueVars

\* append_ads_to_queue, from the loop to save_queue_state and the return;
\* the ads of the call are looked at only here
AppendSave(t) ==
    /\ tpc[t] = "append"
    /\ \E new_ads \in SeqsUpTo(QueueAds, MaxAppend) :
       LET res == AppendAds(state[t], new_ads) IN
       /\ file' = [queue |-> res.queue,
                   served_keys |-> state[t].served_keys]
       /\ added_keys' = added_keys \cup KeysOf(res.added)
       /\ refused' = refused \cup Refused(state[t], new_ads)
    /\ tpc' = [tpc EXCEPT ![t] = "idle"]
    /\ state' = [state EXCEPT ![t] = DefaultState]
    /\ UNCHANGED <<calls, popped, replaced>>
    /\ UNCHANGED notQueueVars

\* pop_next_ad, up to the return of load_queue_state; with an empty queue
\* it returns None here
PopLoad(t) ==
    /\ tpc[t] = "idle"
    /\ calls < MaxCalls
    /\ calls' = calls + 1
    /\ IF file.queue = <<>>
       THEN UNCHANGED <<state, tpc>>
       ELSE /\ state' = [state EXCEPT ![t] = file]
            /\ tpc' = [tpc EXCEPT ![t] = "pop"]
    /\ UNCHANGED <<file, added_keys, refused, popped, replaced>>
    /\ UNCHANGED notQueueVars

\* pop_next_ad, from queue.pop(0) to save_queue_state and the return
PopSave(t) ==
    /\ tpc[t] = "pop"
    /\ LET res == PopNext(state[t]) IN
       /\ file' = res.state
       /\ popped' = Append(popped, res.ad)
    /\ tpc' = [tpc EXCEPT ![t] = "idle"]
    /\ state' = [state EXCEPT ![t] = DefaultState]
    /\ UNCHANGED <<calls, added_keys, refused, replaced>>
    /\ UNCHANGED notQueueVars

\* replace_queue: a default state with the queue and the served keys of
\* the caller (none by default) is saved; the file is not read
ReplaceQueue(t) ==
    /\ tpc[t] = "idle"
    /\ calls < MaxCalls
    /\ calls' = calls + 1
    /\ replaced' = replaced + 1
    /\ \E queue \in SeqsUpTo(QueueAds, MaxAppend) :
       \E served_keys \in SeqsUpTo(AdKeys, MaxAppend) :
         file' = [queue |-> queue, served_keys |-> Dedup(served_keys)]
    /\ UNCHANGED <<tpc, state, added_keys, refused, popped>>
    /\ UNCHANGED notQueueVars

(***************************************************************************)
(* The ranking of the ad inventory (scoring.py).  A text is a sequence of  *)
(* words; a score is kept in tenths of a point, 1000 = 100.0.              *)
(***************************************************************************)
\* at most this many ad records are ranked
MaxRankAds == 2

\* str.lower on a word
Lower(w) == IF w = "Sale" THEN "sale" ELSE w

\* is the term b a substring of the word w
IsSubstr(b, w) == b = w \/ (b = "art" /\ w = "party")

\* _tokenize: the words of the lower-cased text
Tokenize(text) == [i \in 1..Len(text) |-> Lower(text[i])]

\* a categories / strictly_against value: None, a list of strings, or one
\* string whose parts are separated by ; or , (parts are given stripped)
NoList == [kind |-> "none", items |-> <<>>]

\* _to_list
ToList(value) ==
    IF value.kind = "none" THEN <<>>
    ELSE SelectSeq(value.items, LAMBDA x : x # "")

Max(a, b) == IF a >= b THEN a ELSE b

\* an overlap that counts every element of b found in a
OverlapScoreCountList(a, b) ==
    IF a = <<>> \/ b = <<>> THEN [num |-> 0, den |-> 1]
    ELSE [num |-> Cardinality({i \in 1..Len(b) : b[i] \in Range(a)}),
          den |-> Max(Cardinality(Range(a)), 1)]

\* _overlap_score, as the fraction num / den
OverlapScore(a, b) ==
    IF a = <<>> \/ b = <<>> THEN [num |-> 0, den |-> 1]
    ELSE [num |-> Cardinality(Range(a) \cap Range(b)),
          den |-> Max(Cardinality(Range(a)), 1)]

\* _penalty_for_banned, in quarters: min(hits * 0.25, 1.0)
PenaltyForBanned(banned, text) ==
    LET hits == Cardinality({i \in 1..Len(banned) :
                    \E j \in 1..Len(text) :
                        IsSubstr(Lower(banned[i]), Lower(text[j]))})
    IN  Min(hits, 4)

\* round(num / den * 100, 1) in tenths, to the nearest
RoundTenths(num, den) == (2 * 1000 * num + den) \div (2 * den)

\* sum(bool(x) for x in [title, description, image_url])
Completeness(a) ==
    (IF a.title # <<>> THEN 1 ELSE 0)
    + (IF a.description # <<>> THEN 1 ELSE 0)
    + (IF a.image_url # NoneVal THEN 1 ELSE 0)

\* score_ad
ScoreAd(a, p) ==
    LET ad_text == a.title \o a.description \o a.tagline \o a.company_persona
        pa      == OverlapScore(Tokenize(p.persona), Tokenize(ad_text))
        cm      == OverlapScore(ToList(p.categories), ToList(a.categories))
        penalty == PenaltyForBanned(ToList(p.strictly_against)
                                    \o ToList(a.strictly_against), ad_text)
        safety  == Max(0, 4 - penalty)
        comp    == Completeness(a)
        \* total = pa * 0.35 + cm * 0.25 + safety * 0.25 + comp * 0.15
        \* over the common denominator 100 * pa.den * cm.den * 4 * 3
        tnum    == 35 * pa.num * cm.den * 12 + 25 * cm.num * pa.den * 12
                   + 25 * safety * pa.den * cm.den * 3
                   + 15 * comp * pa.den * cm.den * 4
        tden    == 100 * pa.den * cm.den * 12
    IN  [persona_alignment |-> RoundTenths(pa.num, pa.den),
         category_match |-> RoundTenths(cm.num, cm.den),
         safety |-> RoundTenths(safety, 4),
         completeness |-> RoundTenths(comp, 3),
         total |-> RoundTenths(tnum, tden)]

\* rank_ads: every record gets its scores, the list is sorted by total in
\* reverse
RankAds(records, p) ==
    LET scored == [i \in 1..Len(records) |->
                      Put(records[i], "scores", ScoreAd(records[i], p))]
    IN  SortDesc(scored, [i \in 1..Len(scored) |-> scored[i].scores.total])

\* the ad records of the inventory
AdRecords ==
    [title : {<<>>, <<"Sale", "party", "sale">>},
     description : {<<>>, <<"sale">>},
     tagline : {<<>>},
     company_persona : {<<>>},
     image_url : {NoneVal, "u"},
     categories : {NoList, [kind |-> "list", items |-> <<"tech", "">>]},
     strictly_against : {NoList, [kind |-> "str", items |-> <<"art">>]}]

\* the persona records
Personas ==
    [persona : {<<>>, <<"sale", "fun">>},
     categories : {NoList, [kind |-> "str", items |-> <<"tech", "food">>]},
     strictly_against :
         {NoList,
          [kind |-> "list",
           items |-> <<"art", "art", "art", "sale", "sale">>]}]

InitRankIdle ==
    /\ rank_input = <<>>
    /\ persona = [persona |-> <<>>, categories |-> NoList,
                  strictly_against |-> NoList]
    /\ ranked = <<>>

\* a call of rank_ads
InitRank ==
    /\ rank_input \in SeqsUpTo(AdRecords, MaxRankAds)
    /\ persona \in Personas
    /\ ranked = <<>>

RankAdsCall ==
    /\ ranked = <<>>
    /\ ranked' = <<RankAds(rank_input, persona)>>
    /\ UNCHANGED <<rank_input, persona>>
    /\ UNCHANGED notRankVars

(***************************************************************************)
(* The context card (context_agent.py): the posts of the user are put in a *)
(* lookup, one chat request reranks them, and the entries of its reply are *)
(* enriched from the lookup.                                               *)
(***************************************************************************)
\* at most this many entries in the reranked list of a reply
MaxReranked == 26

\* the number of reference posts the card is named for and the prompt asks
\* for ("rank": <1-25>)
Top25 == 25

Sources == <<"posts", "timeline", "likes", "bookmarks">>

\* a post of the user data
UserPost(id, text) == [id |-> id, text |-> text]

\* the posts one source can hold: none, one, one without id, two
SourcePosts(src) ==
    { <<>>,
      <<UserPost("1", <<src, "a">>)>>,
      <<UserPost("", <<src, "b">>)>>,
      <<UserPost("1", <<src, "a">>), UserPost("2", <<src, "c">>)>> }

UserDatas ==
    {ud \in [{Sources[i] : i \in 1..Len(Sources)} ->
                UNION {SourcePosts(Sources[i]) : i \in 1..Len(Sources)}] :
        \A i \in 1..Len(Sources) : ud[Sources[i]] \in SourcePosts(Sources[i])}

\* a composite key "source.id"
CompositeKey(src, id) == <<src, id>>

\* a post id as the model writes it: a composite key, or a bare id (a
\* composite id with an empty source part)
BareId(id) == <<"", id>>

\* _add_posts_to_lookup: the entries of the dict in insertion order; a key
\* set again keeps its place and takes the new value
RECURSIVE AddPostsToLookup(_, _, _)
AddPostsToLookup(posts, src, lookup) ==
    IF posts = <<>> THEN lookup
    ELSE LET post == Head(posts)
             e == [key |-> CompositeKey(src, post.id),
                   text |-> post.text,
                   source |-> src,
                   original_id |-> post.id]
             at == {i \in 1..Len(lookup) : lookup[i].key = e.key}
             nxt == IF post.id = "" THEN lookup
                    ELSE IF at = {} THEN Append(lookup, e)
                    ELSE [i \in 1..Len(lookup) |->
                             IF i \in at THEN e ELSE lookup[i]]
         IN  AddPostsToLookup(Tail(posts), src, nxt)

\* _build_post_lookup: the four sources in order, all their posts
RECURSIVE BuildFrom(_, _, _)
BuildFrom(ud, i, lookup) ==
    IF i > Len(Sources) THEN lookup
    ELSE BuildFrom(ud, i + 1,
                   AddPostsToLookup(ud[Sources[i]], Sources[i], lookup))

BuildPostLookup(ud) == BuildFrom(ud, 1, <<>>)

\* a fallback search that takes any entry of the lookup
FallbackMatchesAny(entry, composite_id) == TRUE

\* the fallback search: key.endswith("." + composite_id) or
\* original_id == composite_id.  A key is "source.id" and ids hold no dot,
\* so a bare id matches the keys with that id, and a composite id matches
\* no key by its ending
FallbackMatches(entry, composite_id) ==
    /\ composite_id[1] = ""
    /\ composite_id[2] # ""
    /\ entry.original_id = composite_id[2]

\* the RerankedPost made from a lookup entry and a reply entry
Enriched(data, post) ==
    [post_id |-> data.original_id,
     text |-> data.text,
     source |-> data.source,
     rank |-> Get(post, "rank", 0),
     relevance_score |-> Get(post, "relevance_score", 500)]

\* _enrich_reranked_posts
RECURSIVE EnrichRerankedPosts(_, _)
EnrichRerankedPosts(reranked, lookup) ==
    IF reranked = <<>> THEN <<>>
    ELSE LET post == Head(reranked)
             composite_id == Get(post, "post_id", BareId(""))
             direct == {i \in 1..Len(lookup) : lookup[i].key = composite_id}
             found  == {i \in 1..Len(lookup) :
                          FallbackMatches(lookup[i], composite_id)}
             first  == IF direct # {} THEN direct ELSE found
             rest   == EnrichRerankedPosts(Tail(reranked), lookup)
         IN  IF first = {} THEN rest
             ELSE LET i == CHOOSE x \in first : \A y \in first : x <= y
                  IN  <<Enriched(lookup[i], post)>> \o rest

\* an entry of the reranked list of a reply, at 1-based position i
CardEntry(kind, i) ==
    CASE kind = "known" ->
           [post_id |-> CompositeKey("posts", "1"), rank |-> i,
            relevance_score |-> 900]
      [] kind = "likes" ->
           [post_id |-> CompositeKey("likes", "2"), rank |-> i,
            relevance_score |-> 800]
      [] kind = "bare" -> [post_id |-> BareId("1"), rank |-> i]
      [] kind = "unknown" ->
           [post_id |-> CompositeKey("posts", "9"), rank |-> i,
            relevance_score |-> 900]
      [] OTHER -> [rank |-> i]

EntryKinds == {"known", "likes", "bare", "unknown", "noid"}

\* reranked lists of up to two entries of any kind
ShortLists ==
    {[i \in 1..Len(ks) |-> CardEntry(ks[i], i)] : ks \in SeqsUpTo(EntryKinds, 2)}

\* longer reranked lists, of entries of one kind
LongLists ==
    {[i \in 1..n |-> CardEntry(k, i)] :
        k \in {"known", "bare", "unknown"}, n \in 3..MaxReranked}

\* a JSON object of the reply with a reranked list
CardObject(list) ==
    [kind |-> "object", general_topic |-> <<"g">>, has_list |-> TRUE,
     list_ok |-> TRUE, top_25_reranked_posts |-> list]

\* other JSON documents: an object without the list and without a topic, an
\* object whose list is null or holds a string, an array
OtherCardDocs ==
    { [kind |-> "object", general_topic |-> <<>>, has_list |-> FALSE,
       list_ok |-> TRUE, top_25_reranked_posts |-> <<>>],
      [kind |-> "object", general_topic |-> <<"g">>, has_list |-> TRUE,
       list_ok |-> FALSE, top_25_reranked_posts |-> <<>>],
      [kind |-> "array", general_topic |-> <<>>, has_list |-> FALSE,
       list_ok |-> TRUE, top_25_reranked_posts |-> <<>>] }

\* replies of the chat request of create_context_card
CardReplies ==
    ChatReplies({CardObject(l) : l \in ShortLists} \cup OtherCardDocs)
    \cup {[kind |-> "ok", content |-> <<JS>>, doc |-> CardObject(l)] :
            l \in LongLists}

\* the dict of the except branch of json.loads
FallbackParsed ==
    [kind |-> "object", general_topic |-> <<"General interests">>,
     has_list |-> TRUE, list_ok |-> TRUE, top_25_reranked_posts |-> <<>>]

\* the places of create_context_card that its try covers
CardTry == {"json.loads"}

(***************************************************************************)
(* The OAuth login server (x_auth/server.py): start_login issues a state   *)
(* and remembers its code verifier, callback takes the verifier of the     *)
(* state it is handed and exchanges the code for a token.  The requests    *)
(* are handled by the threads of the Flask server, and the dict is touched *)
(* once by each handler.                                                   *)
(***************************************************************************)
\* the requests the server handles
MaxRequests == 3

Handlers == 1..MaxRequests

\* the values secrets.token_urlsafe(16) can return; start_login does not
\* look whether a value is in use
OAuthStates == {"s1", "s2"}

\* a request without a state argument
NoState == ""

\* the code verifier generate_pkce_pair makes for a request
Verifier(h) == <<"verifier", h>>

HandlerIdle ==
    [pc |-> "idle", route |-> "", state |-> NoState, verifier |-> <<>>,
     status |-> 0, body |-> "", posted |-> FALSE]

Response(h, route, st, status, body) ==
    [handler[h] EXCEPT !.pc = "done", !.route = route, !.state = st,
                       !.status = status, !.body = body]

\* a lookup that leaves the entry in the dict
DictGet(d, key) == [value |-> d[key], dict |-> d]

\* dict.pop(key, None): the value of the key, or <<>>, and the dict
\* without the key
DictPop(d, key) == [value |-> d[key], dict |-> [d EXCEPT ![key] = <<>>]]

InitOAuthIdle ==
    /\ state_to_verifier = [s \in OAuthStates |-> <<>>]
    /\ handler = [h \in Handlers |-> [HandlerIdle EXCEPT !.pc = "off"]]
    /\ issued = [s \in OAuthStates |-> 0]
    /\ accepted = [s \in OAuthStates |-> 0]

\* the server after start-up: state_to_verifier = {}
InitOAuth ==
    /\ state_to_verifier = [s \in OAuthStates |-> <<>>]
    /\ handler = [h \in Handlers |-> HandlerIdle]
    /\ issued = [s \in OAuthStates |-> 0]
    /\ accepted = [s \in OAuthStates |-> 0]

\* start_login: GET /
StartLogin(h) ==
    /\ handler[h].pc = "idle"
    /\ \E st \in OAuthStates :
         /\ state_to_verifier' =
                [state_to_verifier EXCEPT ![st] = <<Verifier(h)>>]
         /\ issued' = [issued EXCEPT ![st] = @ + 1]
         /\ handler' = [handler EXCEPT ![h] = Response(h, "/", st, 302, "")]
    /\ UNCHANGED accepted
    /\ UNCHANGED notOAuthVars

\* callback: GET /callback, up to the token request
Callback(h) ==
    /\ handler[h].pc = "idle"
    /\ \E error \in BOOLEAN, code \in BOOLEAN,
          st \in OAuthStates \cup {NoState} :
         IF error
         THEN /\ handler' = [handler EXCEPT ![h] =
                     Response(h, "/callback", st, 400, "X returned error")]
              /\ UNCHANGED <<state_to_verifier, accepted>>
         ELSE IF ~code \/ st = NoState
         THEN /\ handler' = [handler EXCEPT ![h] =
                     Response(h, "/callback", st, 400,
                              "Missing code or state")]
              /\ UNCHANGED <<state_to_verifier, accepted>>
         ELSE LET popped_entry == DictPop(state_to_verifier, st) IN
              /\ state_to_verifier' = popped_entry.dict
              /\ IF popped_entry.value = <<>>
                 THEN /\ handler' = [handler EXCEPT ![h] =
                             Response(h, "/callback", st, 400,
                                      "Invalid state (CSRF check failed)")]
                      /\ UNCHANGED accepted
                 ELSE /\ handler' = [handler EXCEPT ![h] =
                             [@ EXCEPT !.pc = "exchange",
                                       !.route = "/callback",
                                       !.state = st,
                                       !.verifier = popped_entry.value]]
                      /\ accepted' = [accepted EXCEPT ![st] = @ + 1]
    /\ UNCHANGED issued
    /\ UNCHANGED notOAuthVars

\* token_resp = requests.post(".../oauth2/token", ...)
TokenExchange(h) ==
    /\ handler[h].pc = "exchange"
    /\ \E outcome \in {"ok", "refused", "raised"} :
         handler' = [handler EXCEPT ![h] =
            CASE outcome = "ok" ->
                   [@ EXCEPT !.pc = "token", !.posted = TRUE]
              [] outcome = "refused" ->
                   [@ EXCEPT !.pc = "done", !.posted = TRUE,
                             !.status = 400, !.body = "Token request failed"]
              [] OTHER ->
                   [@ EXCEPT !.pc = "done", !.posted = TRUE,
                             !.status = 500]]
    /\ UNCHANGED <<state_to_verifier, issued, accepted>>
    /\ UNCHANGED notOAuthVars

\* the reading of the token and the two requests made with it
UseToken(h) ==
    /\ handler[h].pc = "token"
    /\ \E outcome \in {"ok", "raised"} :
         handler' = [handler EXCEPT ![h] =
            [@ EXCEPT !.pc = "done",
                      !.status = IF outcome = "ok" THEN 200 ELSE 500]]
    /\ UNCHANGED <<state_to_verifier, issued, accepted>>
    /\ UNCHANGED notOAuthVars

InitChatIdle ==
    /\ chat = [v \in Variants |-> <<>>]
    /\ sampled = [v \in Variants |-> <<>>]
    /\ generated = [v \in Variants |-> <<>>]
    /\ finished = <<>>
    /\ rewritten_ads = <<>>

InitContextIdle ==
    /\ user_data = [src \in {Sources[i] : i \in 1..Len(Sources)} |-> <<>>]
    /\ xpc = "idle"
    /\ card_reply = <<>>
    /\ parsed = <<>>
    /\ context_card = <<>>

\* a call of create_context_card
InitContext ==
    /\ user_data \in UserDatas
    /\ xpc = "call"
    /\ card_reply = <<>>
    /\ parsed = <<>>
    /\ context_card = <<>>

\* response = chat.sample(), the fence clean-up and json.loads
SampleCard ==
    /\ xpc = "call"
    /\ \E reply \in CardReplies :
         /\ card_reply' = <<reply>>
         /\ IF reply.kind = "transport"
            THEN /\ xpc' = IF "chat.sample" \in CardTry
                           THEN "parsed" ELSE "raised"
                 /\ UNCHANGED parsed
            ELSE /\ xpc' = "parsed"
                 /\ parsed' = IF JsonLoadsRaises(ExtractJson(reply.content))
                              THEN <<FallbackParsed>> ELSE <<reply.doc>>
    /\ UNCHANGED <<user_data, context_card>>
    /\ UNCHANGED notContextVars

\* the enrichment of the reranked entries and the return of the card
BuildCard ==
    /\ xpc = "parsed"
    /\ LET p == parsed[1] IN
       IF p.kind # "object" \/ ~p.list_ok
       THEN /\ xpc' = "raised"
            /\ UNCHANGED context_card
       ELSE /\ xpc' = "done"
            /\ context_card' =
                 <<[general_topic |->
                        IF p.general_topic # <<>> THEN p.general_topic
                        ELSE <<"General interests">>,
                    top_25_reranked_posts |->
                        EnrichRerankedPosts(
                            IF p.has_list THEN p.top_25_reranked_posts
                            ELSE <<>>,
                            BuildPostLookup(user_data))]>>
    /\ UNCHANGED <<user_data, card_reply, parsed>>
    /\ UNCHANGED notContextVars

(***************************************************************************)
(* The conversation of a variant run: chat.append(response) and            *)
(* chat.append(tool_result(...)) of v0, messages.append of auth-agents.    *)
(***************************************************************************)
\* the two messages the conversation is created with
OpeningMessages(v) ==
    << [role |-> "system", by |-> v, content |-> <<>>, tool_calls |-> <<>>,
        result |-> <<>>],
       [role |-> "user", by |-> v, content |-> <<>>, tool_calls |-> <<>>,
        result |-> <<>>] >>

\* the reply of the model as a message of the conversation
AssistantMessage(v, r) ==
    [role |-> "assistant", by |-> v, content |-> r.content,
     tool_calls |-> r.tool_calls, result |-> <<>>]

\* the tool-result message: success flag and resulting url
ToolResultMessage(v, url) ==
    [role |-> "tool", by |-> v, content |-> <<>>, tool_calls |-> <<>>,
     result |-> <<[success |-> url # NoneVal, image_url |-> url]>>]

\* an append to a conversation that all started runs share
ChatAppendShared(c, v, msg) ==
    [w \in Variants |-> IF c[w] # <<>> THEN Append(c[w], msg) ELSE c[w]]

\* chat.append(msg) of the run of variant v
ChatAppend(c, v, msg) == [c EXCEPT ![v] = Append(@, msg)]

\* tool calls of the replies
CopyCall ==
    [name |-> "generate_ad_image",
     arguments |-> [kind |-> "object",
                    obj |-> [image_prompt |-> "P", ad_copy |-> <<"C">>,
                             enhancement_notes |-> "N"]]]
PlainCall ==
    [name |-> "generate_ad_image",
     arguments |-> [kind |-> "object", obj |-> [image_prompt |-> "P"]]]
BadCall ==
    [name |-> "generate_ad_image",
     arguments |-> [kind |-> "invalid", obj |-> [image_prompt |-> "P"]]]
OtherCall ==
    [name |-> "other_tool",
     arguments |-> [kind |-> "invalid", obj |-> [image_prompt |-> "P"]]]

\* replies of chat.sample in a run whose conversation is followed
ChatResponses ==
    [content : {<<>>, <<"T">>},
     tool_calls : {<<>>, <<CopyCall>>, <<PlainCall>>, <<OtherCall>>,
                   <<BadCall, CopyCall>>, <<CopyCall, PlainCall>>}]

\* replies of the scoring call in a run whose conversation is followed
ChatScoreReplies ==
    {[kind |-> "error", scores |-> <<>>],
     [kind |-> "list",
      scores |-> <<[isdict |-> TRUE,
                    d |-> [image_index |-> 1, ctr_score |-> 150,
                           reasoning |-> "why"]]>>]}

\* response = chat.sample(), the handling of its free text, and
\* "if tool_calls: chat.append(response)"
SampleChatFrom(v, replies) ==
    /\ pc[v] = "await"
    /\ UNCHANGED <<generated, finished, rewritten_ads>>
    /\ \/ SampleFails(v) /\ UNCHANGED <<chat, sampled>>
       \/ \E r \in replies :
            /\ SampleReply(v, r)
            /\ sampled' = [sampled EXCEPT ![v] = Append(@, r)]
            /\ chat' = IF r.tool_calls # <<>>
                       THEN ChatAppend(chat, v, AssistantMessage(v, r))
                       ELSE chat
    /\ UNCHANGED notLoopVars

SampleChat(v) == SampleChatFrom(v, ChatResponses)

\* one pass of "for tc in tool_calls" with its chat.append(tool_result(..))
ExecToolChat(v) ==
    /\ pc[v] = "tools"
    /\ \E outcome \in ImageOutcomes :
         /\ ExecToolOutcome(v, outcome)
         /\ LET tc  == Head(tool_calls[v])
                ran == /\ tc.name = "generate_ad_image"
                       /\ ToolCallRaises(tc) = "none"
                       /\ ~(outcome = "error" /\ "image.sample" \notin ImageTry)
            IN  /\ chat' = IF ran
                           THEN ChatAppend(chat, v,
                                  ToolResultMessage(v, enhanced_image_url'[v]))
                           ELSE chat
                /\ generated' = IF ran
                                THEN [generated EXCEPT ![v] =
                                        Append(@, GenerateAdImage(outcome))]
                                ELSE generated
    /\ UNCHANGED <<sampled, finished, rewritten_ads>>
    /\ UNCHANGED notLoopVars

FinishChat(v) == FinishStep(v) /\ UNCHANGED chatVars /\ UNCHANGED notLoopVars

ScoreImagesChat(v) ==
    /\ ScoreImagesFrom(v, ChatScoreReplies)
    /\ UNCHANGED chatVars
    /\ UNCHANGED notLoopVars

\* one call of _rewrite_ad_variant with its conversation
InitChat ==
    /\ InitVariant
    /\ chat = [v \in Variants |->
                 IF pc[v] = "await" THEN OpeningMessages(v) ELSE <<>>]
    /\ sampled = [v \in Variants |-> <<>>]
    /\ generated = [v \in Variants |-> <<>>]
    /\ finished = <<>>
    /\ rewritten_ads = <<>>

\* replies of chat.sample in the runs of a fan-out: free text that ends
\* the loop, or one tool call with a copy
FanResponses ==
    {[content |-> <<"T">>, tool_calls |-> <<>>],
     [content |-> <<>>, tool_calls |-> <<CopyCall>>]}

SampleFan(v) == SampleChatFrom(v, FanResponses)

\* replies of the scoring call in the runs of a fan-out
FanScoreReplies == {[kind |-> "error", scores |-> <<>>]}

ScoreImagesFan(v) ==
    /\ ScoreImagesFrom(v, FanScoreReplies)
    /\ UNCHANGED chatVars
    /\ UNCHANGED notLoopVars

\* "executor.submit(self._rewrite_ad_variant, selected_ad, context_card,
\* i+1, original_image_url, image_analysis) for i in range(3)": the three
\* runs are started on the same inputs, each with a conversation of its own
InitFan ==
    /\ ad = <<"A">>
    /\ original_image_url \in {NoneVal, OriginalUrl}
    /\ image_analysis = <<>>
    /\ InitVariantLocals
    /\ pc = [v \in Variants |-> "await"]
    /\ chat = [v \in Variants |-> OpeningMessages(v)]
    /\ sampled = [v \in Variants |-> <<>>]
    /\ generated = [v \in Variants |-> <<>>]
    /\ finished = <<>>
    /\ rewritten_ads = <<>>

\* replies of chat.sample in the runs of a remix whose results are
\* collected: free text that ends the loop
CollectResponses ==
    {[content |-> <<"T">>, tool_calls |-> <<>>],
     [content |-> <<"U">>, tool_calls |-> <<>>]}

SampleCollect(v) == SampleChatFrom(v, CollectResponses)

\* the end of the run of variant v without comparison: its future is done
FinishCollect(v) ==
    /\ FinishStep(v)
    /\ finished' = IF pc'[v] = "done" THEN Append(finished, v) ELSE finished
    /\ UNCHANGED <<chat, sampled, generated, rewritten_ads>>
    /\ UNCHANGED notLoopVars

\* a list of the results in the order in which the runs returned
ResultsAsCompleted(order) ==
    [i \in 1..Len(order) |-> rewritten[order[i]][1]]

\* "[f.result() for f in futures]" (v0) and the value of asyncio.gather
\* (auth-agents): the results in the order in which the runs were started
ResultsInOrder(order) ==
    [i \in 1..NumVariants |-> rewritten[i][1]]

\* all three futures are done: the list of variants is built and returned
CollectVariants ==
    /\ rewritten_ads = <<>>
    /\ \A v \in Variants : pc[v] = "done"
    /\ rewritten_ads' = <<ResultsInOrder(finished)>>
    /\ UNCHANGED <<chat, sampled, generated, finished>>
    /\ UNCHANGED variantVars
    /\ UNCHANGED notLoopVars

\* the three runs of a remix without a source image
InitCollectRuns ==
    /\ ad = <<"A">>
    /\ original_image_url = NoneVal
    /\ image_analysis = <<>>
    /\ InitVariantLocals
    /\ pc = [v \in Variants |-> "await"]
    /\ chat = [v \in Variants |-> OpeningMessages(v)]
    /\ sampled = [v \in Variants |-> <<>>]
    /\ generated = [v \in Variants |-> <<>>]
    /\ finished = <<>>
    /\ rewritten_ads = <<>>

(***************************************************************************)
(* Specifications.                                                         *)
(***************************************************************************)
Init == InitVariant /\ InitCriticIdle /\ InitRemixIdle /\ InitScoreIdle
    /\ InitOAuthIdle
    /\ InitQueueIdle /\ InitRankIdle /\ InitContextIdle /\ InitChatIdle

\* a step of the run of variant v
Step(v) == Sample(v) \/ ExecTool(v) \/ Finish(v) \/ ScoreImages(v)

Next ==
    \/ \E v \in Variants : Sample(v)
    \/ \E v \in Variants : ExecTool(v)
    \/ \E v \in Variants : Finish(v)
    \/ \E v \in Variants : ScoreImages(v)

\* one run of _rewrite_ad_variant
Spec == Init /\ [][Next]_vars

InitPredict ==
    InitVariantIdle /\ InitCritic /\ InitRemixIdle /\ InitScoreIdle
    /\ InitOAuthIdle
    /\ InitQueueIdle /\ InitRankIdle /\ InitContextIdle /\ InitChatIdle

NextCritic ==
    \/ ExtractProduct
    \/ \E i \in 1..Len(ads) : \E k \in 1..ensemble_runs : EvalOnce(i, k)
    \/ \E i \in 1..Len(ads) : EnsembleEval(i)
    \/ Predict

\* one run of predict_async
SpecCritic == InitPredict /\ [][NextCritic]_vars

InitAggregate ==
    InitVariantIdle /\ InitEnsemble /\ InitRemixIdle /\ InitScoreIdle
    /\ InitOAuthIdle
    /\ InitQueueIdle /\ InitRankIdle /\ InitContextIdle /\ InitChatIdle

NextEnsemble == \E i \in 1..Len(ads) : EnsembleEval(i)

\* the aggregation of the runs of one candidate
SpecEnsemble == InitAggregate /\ [][NextEnsemble]_vars

InitRemixOp ==
    InitVariantIdle /\ InitCriticIdle /\ InitRemix /\ InitScoreIdle
    /\ InitOAuthIdle
    /\ InitQueueIdle /\ InitRankIdle /\ InitContextIdle /\ InitChatIdle

NextRemix ==
    \/ SelectBest
    \/ SelectRanked
    \/ AnalyzeOriginalImage
    \/ StartVariants

\* one run of the remix operation up to the start of its variants
SpecRemix == InitRemixOp /\ [][NextRemix]_vars

InitComparison ==
    InitVariantIdle /\ InitCriticIdle /\ InitRemixIdle /\ InitScore
    /\ InitOAuthIdle
    /\ InitQueueIdle /\ InitRankIdle /\ InitContextIdle /\ InitChatIdle

NextScore ==
    \/ ScoreImageCtrCall
    \/ BuildComparison

\* one image comparison
SpecScore == InitComparison /\ [][NextScore]_vars

InitCache ==
    InitVariantIdle /\ InitCriticIdle /\ InitRemixIdle /\ InitScoreIdle
    /\ InitOAuthIdle
    /\ InitQueue /\ InitRankIdle /\ InitContextIdle /\ InitChatIdle

NextQueue ==
    \/ \E t \in Threads : AppendLoad(t)
    \/ \E t \in Threads : AppendSave(t)
    \/ \E t \in Threads : PopLoad(t)
    \/ \E t \in Threads : PopSave(t)

\* threads appending to and popping from the queue of one user
SpecQueue == InitCache /\ [][NextQueue]_vars

InitCacheOwner ==
    InitVariantIdle /\ InitCriticIdle /\ InitRemixIdle /\ InitScoreIdle
    /\ InitOAuthIdle
    /\ InitQueueOwner /\ InitRankIdle /\ InitContextIdle /\ InitChatIdle

NextReplace ==
    \/ AppendLoad(1)
    \/ AppendSave(1)
    \/ PopLoad(1)
    \/ PopSave(1)
    \/ ReplaceQueue(1)

\* one thread appending to, popping from and replacing the queue
SpecReplace == InitCacheOwner /\ [][NextReplace]_vars

InitRanking ==
    InitVariantIdle /\ InitCriticIdle /\ InitRemixIdle /\ InitScoreIdle
    /\ InitOAuthIdle
    /\ InitQueueIdle /\ InitRank /\ InitContextIdle /\ InitChatIdle

NextRank == RankAdsCall

\* one call of rank_ads
SpecRank == InitRanking /\ [][NextRank]_vars

InitCard ==
    InitVariantIdle /\ InitCriticIdle /\ InitRemixIdle /\ InitScoreIdle
    /\ InitOAuthIdle
    /\ InitQueueIdle /\ InitRankIdle /\ InitContext /\ InitChatIdle

NextContext ==
    \/ SampleCard
    \/ BuildCard

\* one call of create_context_card
SpecContext == InitCard /\ [][NextContext]_vars

InitFanout ==
    InitFan /\ InitCriticIdle /\ InitRemixIdle /\ InitScoreIdle
    /\ InitOAuthIdle
    /\ InitQueueIdle /\ InitRankIdle /\ InitContextIdle

NextFanout ==
    \/ \E v \in Variants : SampleFan(v)
    \/ \E v \in Variants : ExecToolChat(v)
    \/ \E v \in Variants : FinishChat(v)
    \/ \E v \in Variants : ScoreImagesFan(v)

\* the three variant runs of one remix, interleaved
SpecFanout == InitFanout /\ [][NextFanout]_vars

InitCollect ==
    InitCollectRuns /\ InitCriticIdle /\ InitRemixIdle /\ InitScoreIdle
    /\ InitOAuthIdle
    /\ InitQueueIdle /\ InitRankIdle /\ InitContextIdle

NextCollect ==
    \/ \E v \in Variants : SampleCollect(v)
    \/ \E v \in Variants : FinishCollect(v)
    \/ CollectVariants

\* the three variant runs of one remix and the collection of their results
SpecCollect == InitCollect /\ [][NextCollect]_vars

InitPipeline ==
    InitVariantIdle /\ InitPick /\ InitRemixIdle /\ InitScoreIdle
    /\ InitOAuthIdle
    /\ InitQueueIdle /\ InitRankIdle /\ InitContextIdle /\ InitChatIdle

NextPipeline ==
    \/ ExtractProduct
    \/ \E i \in 1..Len(ads) : \E k \in 1..ensemble_runs : EvalOnce(i, k)
    \/ \E i \in 1..Len(ads) : EnsembleEval(i)
    \/ Predict
    \/ PickBest

\* the critic on the three variants of one remix, and the choice of the
\* best variant
SpecPipeline == InitPipeline /\ [][NextPipeline]_vars

InitLogin ==
    InitVariantIdle /\ InitCriticIdle /\ InitRemixIdle /\ InitScoreIdle
    /\ InitQueueIdle /\ InitRankIdle /\ InitContextIdle /\ InitChatIdle
    /\ InitOAuth

NextOAuth ==
    \/ \E h \in Handlers : StartLogin(h)
    \/ \E h \in Handlers : Callback(h)
    \/ \E h \in Handlers : TokenExchange(h)
    \/ \E h \in Handlers : UseToken(h)

\* the requests of the OAuth login server, handled concurrently
SpecOAuth == InitLogin /\ [][NextOAuth]_vars

InitConversation ==
    InitChat /\ InitCriticIdle /\ InitRemixIdle /\ InitScoreIdle
    /\ InitOAuthIdle
    /\ InitQueueIdle /\ InitRankIdle /\ InitContextIdle

NextChat ==
    \/ \E v \in Variants : SampleChat(v)
    \/ \E v \in Variants : ExecToolChat(v)
    \/ \E v \in Variants : FinishChat(v)
    \/ \E v \in Variants : ScoreImagesChat(v)

\* one run of _rewrite_ad_variant with its conversation
SpecChat == InitConversation /\ [][NextChat]_vars

(***************************************************************************)
(* Claims about the variant generation.                                    *)
(***************************************************************************)

\* C1: the text of a returned variant is never empty, whatever the outcome
\* of the chat, image-generation and scoring calls.
C1_TextNeverEmpty ==
    \A v \in Variants :
        rewritten[v] # <<>> => rewritten[v][1].content # <<>>

\* C2: no exception leaves _rewrite_ad_variant, whatever the chat, image
\* and scoring calls do (failure, malformed reply, tool arguments that are
\* not JSON).
C2_NeverRaises == \A v \in Variants : pc[v] # "raised"

\* a variant was returned after its tool arguments failed to parse and
\* its scoring call failed
C2_Witness ==
    \E v \in Variants :
        /\ pc[v] = "done"
        /\ rewritten[v] # <<>>
        /\ {"args", "score"} \subseteq faults[v]

\* the position of a run in the order in which it passes its places
PcOrder(p) ==
    CASE p = "idle" -> 0
      [] p = "tools" -> 1
      [] p = "await" -> 2
      [] p = "finish" -> 3
      [] p = "score" -> 4
      [] OTHER -> 5

\* a measure that is bounded while requests is
Rank(v) == 100 * requests[v] + 10 * PcOrder(pc[v]) - Len(tool_calls[v])

\* C3: at most max_iterations chat requests are sent per variant, a request
\* is sent only while every earlier reply carried tool calls and was run
\* without error, no request follows the third reply, and every started
\* run ends in DONE: a run that has not returned can always take a step
\* that changes the state, and every such step moves a run forward in a
\* bounded measure without moving another one back.
C3_BoundedLoop ==
    /\ [](\A v \in Variants :
            /\ requests[v] <= max_iterations
            /\ pc[v] = "await" =>
                 requests[v] = iteration[v] /\ iteration[v] < max_iterations
            /\ pc[v] \notin {"idle", "done"} => ENABLED <<Step(v)>>_vars)
    /\ [][/\ \A v \in Variants : Rank(v)' >= Rank(v)
          /\ \E v \in Variants : Rank(v)' > Rank(v)]_vars

\* the third reply carried a tool call, and the run ended without a
\* fourth request
C3_Witness ==
    \E v \in Variants :
        pc[v] = "done" /\ requests[v] = max_iterations
                       /\ iteration[v] = max_iterations

\* C10: with a source image and a generated image, a failed comparison gives
\* the generated image as the chosen image, and both entries carry the
\* default score with the reasoning "Scoring unavailable".
C10_FailedComparisonKeepsGenerated ==
    \A v \in Variants :
        (rewritten[v] # <<>> /\ "score" \in faults[v]) =>
            LET r == rewritten[v][1] IN
            /\ r.ctr_comparison # <<>>
            /\ r.image_uri = r.enhanced_image_uri
            /\ \A j \in 1..Len(r.ctr_comparison[1].all_scores) :
                 /\ r.ctr_comparison[1].all_scores[j].score = DefaultCtrScore
                 /\ r.ctr_comparison[1].all_scores[j].reasoning
                      = "Scoring unavailable"

(***************************************************************************)
(* Claims about the critic.                                                *)
(***************************************************************************)
Resolved(i, k) == results[i][k] # <<>>

\* the reply of run k of candidate i could not be used
Unusable(i, k) ==
    /\ Resolved(i, k)
    /\ \/ results[i][k][1].failed
       \/ ~(TripleKeys \subseteq DOMAIN results[i][k][1].value)

\* C4: a branch of a fan-out that fails does not stop its siblings, and the
\* enclosing operation still returns.
C4_FailedBranchIsolated ==
    (\E i \in 1..Len(ads) : \E k \in 1..ensemble_runs : Unusable(i, k))
        => cpc # "raised"

\* C5: every EnsembleCTRScore has num_runs equal to the configured ensemble
\* size, failed runs included.
C5_RunCount ==
    /\ \A i \in 1..Len(ads) :
         scores[i] # <<>> => scores[i][1].num_runs = ensemble_runs
    /\ prediction # <<>> =>
         /\ \A j \in 1..Len(prediction[1].scores) :
              prediction[1].scores[j].num_runs = ensemble_runs
         /\ prediction[1].total_simulations = Len(ads) * ensemble_runs

\* predict returned although every run of some candidate failed
C5_Witness ==
    /\ prediction # <<>>
    /\ \E i \in 1..Len(ads) :
         \A k \in 1..ensemble_runs : Resolved(i, k) /\ results[i][k][1].failed

\* C6: a run whose reply cannot be used enters the aggregation as the
\* neutral triple, and predict still returns.
C6_UnusableRunIsNeutral ==
    /\ ads # <<>> => cpc # "raised"
    /\ \A i \in 1..Len(ads) :
         scores[i] # <<>> =>
             scores[i][1].ctr_mean =
                 Mean([k \in 1..ensemble_runs |->
                         IF Unusable(i, k) THEN Ctr(500, 500, 500)
                         ELSE Ctr(results[i][k][1].value.click_probability,
                                  results[i][k][1].value.attention_score,
                                  results[i][k][1].value.relevance_score)])

\* C27: a candidate's aggregate exists only when all ensemble_runs runs of
\* that candidate have returned (a value or the fallback), and the ranking
\* and the confidence exist only when every candidate has its aggregate.
C27_AggregateAfterFanOut ==
    /\ \A i \in 1..Len(ads) :
         scores[i] # <<>> => \A k \in 1..ensemble_runs : Resolved(i, k)
    /\ prediction # <<>> =>
         /\ \A i \in 1..Len(ads) : scores[i] # <<>>
         /\ Len(prediction[1].scores) = Len(ads)

\* a prediction over two candidates of two runs each, one run a fallback
C27_Witness ==
    /\ prediction # <<>>
    /\ Len(ads) >= 2
    /\ ensemble_runs >= 2
    /\ \E i \in 1..Len(ads) : \E k \in 1..ensemble_runs :
         /\ results[i][k][1].failed
         /\ \E j \in 1..ensemble_runs : ~results[i][j][1].failed

\* C34: the best_variant returned by remix_single_ad_and_get_best is the
\* variant whose ctr_mean is maximal among the three, and the returned
\* ctr_score is the ctr_mean of that same variant.
C34_BestVariant ==
    best_result # <<>> =>
        LET b == best_result[1].best_variant.position + 1 IN
        /\ best_result[1].best_variant = VariantList[b]
        /\ \A i \in 1..Len(ads) :
             scores[b][1].ctr_mean >= scores[i][1].ctr_mean
        /\ best_result[1].ctr_score = scores[b][1].ctr_mean

\* the third variant was returned as the best, ahead of the other two
C34_Witness ==
    /\ best_result # <<>>
    /\ best_result[1].best_variant.position = 2
    /\ \A i \in 1..2 : scores[3][1].ctr_mean > scores[i][1].ctr_mean
    /\ best_result[1].ctr_score = scores[3][1].ctr_mean

\* C35: candidates with equal ctr_mean stay in input order in the scores of
\* a prediction, so among the candidates tied for the top the winner is
\* the one with the lowest input index.
C35_StableTies ==
    prediction # <<>> =>
        LET p == prediction[1] IN
        /\ \A j, k \in 1..Len(p.scores) :
             (j < k /\ p.scores[j].ctr_mean = p.scores[k].ctr_mean)
             => p.scores[j].ad_index < p.scores[k].ad_index
        /\ \A i \in 1..Len(ads) :
             scores[i][1].ctr_mean = p.scores[1].ctr_mean
             => p.best_ad_index <= i - 1

\* two candidates tied for the top, the first of the input wins
C35_Witness ==
    /\ prediction # <<>>
    /\ Len(ads) >= 2
    /\ scores[1][1].ctr_mean = scores[2][1].ctr_mean
    /\ prediction[1].best_ad_index = 0
    /\ prediction[1].scores[2].ad_index = 1

\* C7: the scores of a prediction are in non-increasing ctr_mean order, they
\* are the scores of the candidates, and best_ad_index / best_ad_text are
\* the input index and text of the first of them.
C7_Ranking ==
    prediction # <<>> =>
        LET p == prediction[1] IN
        /\ Len(p.scores) = Len(ads)
        /\ \A j \in 1..(Len(p.scores) - 1) :
             p.scores[j].ctr_mean >= p.scores[j + 1].ctr_mean
        /\ \A i \in 1..Len(ads) :
             \E j \in 1..Len(p.scores) : p.scores[j] = scores[i][1]
        /\ p.best_ad_index = p.scores[1].ad_index
        /\ p.best_ad_text = ads[p.best_ad_index + 1]
        /\ scores[p.best_ad_index + 1][1] = p.scores[1]

\* the winner is not the first candidate of the input
C7_Witness ==
    /\ prediction # <<>>
    /\ Len(prediction[1].scores) >= 2
    /\ prediction[1].best_ad_index # 0
    /\ prediction[1].scores[1].ctr_mean > prediction[1].scores[2].ctr_mean

\* C8: with two or more candidates the confidence lies in [0, 0.95] and,
\* for the consistency of the winner, no smaller gap gives a larger
\* confidence and no larger gap a smaller one.
C8_Confidence ==
    (prediction # <<>> /\ Len(prediction[1].scores) >= 2) =>
        LET p    == prediction[1]
            gap  == p.scores[1].ctr_mean - p.scores[2].ctr_mean
            cons == Consistency(p.scores[1].ctr_std)
        IN  /\ 0 <= p.confidence /\ p.confidence <= 950
            /\ gap >= 0
            /\ \A g \in 0..gap : ConfidenceOf(g, cons) <= p.confidence
            /\ \A g \in gap..One : ConfidenceOf(g, cons) >= p.confidence

\* a prediction whose winner leads by a positive gap and has a spread
C8_Witness ==
    /\ prediction # <<>>
    /\ Len(prediction[1].scores) >= 2
    /\ prediction[1].scores[1].ctr_mean > prediction[1].scores[2].ctr_mean
    /\ prediction[1].scores[1].ctr_std > 0
    /\ prediction[1].confidence < 950

\* C9: with fewer than two candidates predict returns a prediction whose
\* confidence is the baseline 0.7.
C9_BaselineConfidence ==
    (/\ Len(ads) < 2
     /\ \A i \in 1..Len(ads) : \A k \in 1..ensemble_runs :
           Resolved(i, k) =>
               TripleKeys \subseteq DOMAIN results[i][k][1].value)
    => /\ cpc # "raised"
       /\ prediction # <<>> => prediction[1].confidence = BaselineConfidence

\* C21: predict sends the product extraction request exactly when it was
\* given no product name, the request has returned before any evaluation of
\* a candidate starts, and when the request fails the product is the empty
\* string and predict still returns its prediction.
C21_ProductExtraction ==
    /\ cpc # "product" =>
          (extract_calls = 1 <=> product # "given") /\ extract_calls <= 1
    /\ cpc = "product" =>
          \A i \in 1..Len(ads) : \A k \in 1..ensemble_runs : ~Resolved(i, k)
    /\ "extract" \in critic_faults => product = "" /\ cpc # "raised"

\* the click probabilities and the composites of the runs of candidate i
RunClicks(i) ==
    [k \in 1..ensemble_runs |-> results[i][k][1].value.click_probability]

RunCtrs(i) ==
    [k \in 1..ensemble_runs |->
        (5 * results[i][k][1].value.click_probability
         + 3 * results[i][k][1].value.attention_score
         + 2 * results[i][k][1].value.relevance_score) \div 10]

\* n times the sum of the squares minus the square of the sum: n * n times
\* the variance with divisor n
Spread(s) ==
    Len(s) * SumSeq([k \in 1..Len(s) |-> s[k] * s[k]])
    - SumSeq(s) * SumSeq(s)

\* sd is the square root of num / den, to three decimals, rounded down
IsRootOf(sd, num, den) ==
    /\ sd >= 0
    /\ sd * sd * den <= num
    /\ num < (sd + 1) * (sd + 1) * den

\* C23: ctr_std and click_prob_std of an EnsembleCTRScore are the
\* population standard deviation of the per-run values (divisor = number
\* of runs), and 0 when the ensemble has one run.
C23_PopulationStd ==
    \A i \in 1..Len(ads) :
        scores[i] # <<>> =>
            LET n == ensemble_runs IN
            /\ IsRootOf(scores[i][1].click_prob_std,
                        Spread(RunClicks(i)), n * n)
            /\ IsRootOf(scores[i][1].ctr_std, Spread(RunCtrs(i)), n * n)
            /\ n = 1 => scores[i][1].click_prob_std = 0
                        /\ scores[i][1].ctr_std = 0

\* C23 as amended: ctr_std and click_prob_std are the sample standard
\* deviation of the per-run values (divisor = number of runs - 1) when the
\* ensemble has two or more runs, and 0 when it has one run.
C23_SampleStd ==
    \A i \in 1..Len(ads) :
        scores[i] # <<>> =>
            LET n == ensemble_runs IN
            IF n = 1
            THEN scores[i][1].click_prob_std = 0 /\ scores[i][1].ctr_std = 0
            ELSE /\ IsRootOf(scores[i][1].click_prob_std,
                             Spread(RunClicks(i)), n * (n - 1))
                 /\ IsRootOf(scores[i][1].ctr_std,
                             Spread(RunCtrs(i)), n * (n - 1))

\* a candidate whose runs differ was aggregated, with a spread that is not
\* the population one
C23_Witness ==
    \E i \in 1..Len(ads) :
        /\ scores[i] # <<>>
        /\ ensemble_runs >= 2
        /\ scores[i][1].ctr_std > 0
        /\ ~IsRootOf(scores[i][1].ctr_std, Spread(RunCtrs(i)),
                     ensemble_runs * ensemble_runs)

\* the triple of run k of candidate i lies in [0,1]^3
ValidTriple(i, k) ==
    \A key \in TripleKeys :
        /\ 0 <= results[i][k][1].value[key]
        /\ results[i][k][1].value[key] <= One

\* m is the mean of s, to three decimals, rounded down
IsMeanOf(m, s) ==
    Len(s) * m <= SumSeq(s) /\ SumSeq(s) < Len(s) * (m + 1)

\* C24: for every run whose triple lies in [0,1]^3 the composite of the run
\* lies in [0,1]; ctr_mean is the mean of the composites
\* 0.5 * click + 0.3 * attention + 0.2 * relevance of the runs, and lies
\* in [0,1] when all triples do.
C24_CompositeRange ==
    \A i \in 1..Len(ads) :
        scores[i] # <<>> =>
            /\ \A k \in 1..ensemble_runs :
                 ValidTriple(i, k) =>
                    LET t == results[i][k][1].value
                        c == Ctr(t.click_probability, t.attention_score,
                                 t.relevance_score)
                    IN  0 <= c /\ c <= One
            /\ IsMeanOf(scores[i][1].ctr_mean, RunCtrs(i))
            /\ (\A k \in 1..ensemble_runs : ValidTriple(i, k)) =>
                 0 <= scores[i][1].ctr_mean /\ scores[i][1].ctr_mean <= One

\* runs with differing triples in [0,1]^3, one of them (1, 1, 1), were
\* aggregated
C24_Witness ==
    /\ scores # <<>>
    /\ scores[1] # <<>>
    /\ ensemble_runs >= 2
    /\ \A k \in 1..ensemble_runs : ValidTriple(1, k)
    /\ \E k \in 1..ensemble_runs : RunCtrs(1)[k] = One
    /\ scores[1][1].ctr_mean > 0
    /\ scores[1][1].ctr_mean < One

(***************************************************************************)
(* Claims about the remix operation.                                       *)
(***************************************************************************)

\* C11: when the selection call fails in transport or its text is not
\* valid JSON, _select_best_ad returns index 0, the text of the first
\* candidate and the reasoning "Fallback due to error".
C11_SelectionFallback ==
    (selection # <<>> /\ "select" \in remix_faults) =>
        /\ selection[1].kind = "object"
        /\ selection[1].obj.selected_ad_index = 0
        /\ selection[1].obj.selected_ad_text = candidate_ads[1]
        /\ selection[1].obj.reasoning = "Fallback due to error"

\* the selection call failed with several candidates, and the variants
\* were started with the first
C11_Witness ==
    /\ "select" \in remix_faults
    /\ Len(candidate_ads) >= 2
    /\ rpc = "running"
    /\ \A v \in Variants : fanout[v][1].ad = CandText(1)

\* C12: whatever the selection call answers (transport failure, text that
\* is not JSON, JSON of an unexpected shape or with missing fields), the
\* remix operation is not aborted by it, and the variants are started with
\* the text of a candidate.
C12_SelectionNeverAborts ==
    /\ raised_at # "selection.get"
    /\ (impl = "auth" /\ rpc = "running") =>
          \A v \in Variants :
              \E i \in 1..Len(candidate_ads) :
                  fanout[v][1].ad = candidate_ads[i]

\* C13: when the vision call fails or its reply cannot be parsed, the
\* analysis is absent (None), the remix operation goes on, and the variants
\* run in fresh-image mode: no analysis section in the rewrite prompt and
\* no reference clause appended to the image prompt.
C13_AnalysisAbsentOnFailure ==
    "analyze" \in remix_faults =>
        /\ remix_analysis = NoAnalysis
        /\ rpc # "raised"
        /\ rpc = "running" =>
             \A v \in Variants :
                 /\ fanout[v][1].image_context # "analysis"
                 /\ ~fanout[v][1].reference

\* C36: the text handed to the variant runs is one of the (at most 5)
\* candidate texts that were passed to the selection call, whatever the
\* selection model replies.
C36_SelectedIsCandidate ==
    /\ Len(selection) = 1 => Len(candidate_ads) <= SelectionCap
    /\ \A v \in Variants :
         fanout[v] # <<>> => fanout[v][1].ad \in Range(candidate_ads)

(***************************************************************************)
(* Claims about the image comparison.                                      *)
(***************************************************************************)
\* the three conditions of the comparison, on the state of variant v
ComparisonDue(v) ==
    /\ original_image_url # NoneVal
    /\ enhanced_image_url[v] # NoneVal
    /\ ad_copy[v] # <<>>

\* C14: the comparison call is made for a variant exactly when a source
\* image exists, an image was generated and the copy is not empty; in every
\* other case the variant carries no comparison and its chosen image is the
\* generated image (None when none was generated).
C14_ComparisonIff ==
    /\ [](\A v \in Variants :
            rewritten[v] # <<>> =>
                LET r == rewritten[v][1] IN
                /\ r.ctr_comparison # <<>> <=> ComparisonDue(v)
                /\ ~ComparisonDue(v) => r.image_uri = enhanced_image_url[v]
                /\ r.content = ad_copy[v]
                /\ r.enhanced_image_uri = enhanced_image_url[v])
    /\ [][\A v \in Variants :
            /\ (pc[v] # "score" /\ pc'[v] = "score") => ComparisonDue(v)'
            /\ (pc[v] = "finish" /\ pc'[v] = "done") => ~ComparisonDue(v)']_vars

\* a variant came back with a comparison, and the comparison call had not
\* failed
C14_Witness ==
    \E v \in Variants :
        /\ pc[v] = "done"
        /\ rewritten[v][1].ctr_comparison # <<>>
        /\ "score" \notin faults[v]

\* the url of the image of a kind
UrlOfType(t) == IF t = "original" THEN OriginalUrl ELSE GeneratedUrl

\* the 1-based position of the image of a kind in the scoring request
IndexOfType(t) == IF t = "original" THEN 1 ELSE 2

\* the entries of a reply that name the image at 1-based position i
EntriesFor(reply, i) ==
    {k \in 1..Len(reply.scores) : reply.scores[k].d.image_index = i}

\* C15: a recorded comparison has its scores in non-increasing order, its
\* winner and winner score are those of the first entry, the chosen image
\* is the image of the first entry, and when the reply was usable an image
\* carries the score of the last reply entry that names its 1-based
\* position.
C15_ComparisonSorted ==
    ctr_comparison # <<>> =>
        LET c   == ctr_comparison[1]
            all == c.all_scores
            r   == score_reply[1]
        IN  /\ Len(all) = 2
            /\ {all[1].image_type, all[2].image_type}
                 = {"original", "enhanced"}
            /\ all[1].score >= all[2].score
            /\ c.winner = all[1].image_type
            /\ c.winner_score = all[1].score
            /\ best_image_url = UrlOfType(all[1].image_type)
            /\ ~ScoreRaises(r) =>
                 \A j \in 1..2 :
                    LET ks == EntriesFor(r, IndexOfType(all[j].image_type))
                    IN  IF ks = {} THEN all[j].score = 0
                        ELSE LET k == CHOOSE x \in ks : \A y \in ks : y <= x
                             IN  all[j].score =
                                   Get(r.scores[k].d, "ctr_score",
                                       DefaultCtrScore)

\* the reply scored the generated image above the source image, and the
\* generated image was chosen
C15_Witness ==
    /\ ctr_comparison # <<>>
    /\ ~ScoreRaises(score_reply[1])
    /\ ctr_comparison[1].winner = "enhanced"
    /\ ctr_comparison[1].all_scores[1].score
         > ctr_comparison[1].all_scores[2].score
    /\ best_image_url = GeneratedUrl

\* C16: every score of a recorded comparison lies in [0, 100], whatever
\* the scoring model answers.
C16_ScoreRange ==
    ctr_comparison # <<>> =>
        \A j \in 1..Len(ctr_comparison[1].all_scores) :
            /\ 0 <= ctr_comparison[1].all_scores[j].score
            /\ ctr_comparison[1].all_scores[j].score <= 100

(***************************************************************************)
(* Claims about the ad queue.                                              *)
(***************************************************************************)
Quiescent == \A t \in Threads : tpc[t] \in {"idle", "off"}

\* C17: append_ads_to_queue and pop_next_ad are atomic for one user: with
\* calls of several threads interleaved, once all calls have returned every
\* ad an append counted as added is in the queue or was returned by a pop,
\* and no ad is returned by two pops.
C17_AtomicCalls ==
    /\ Quiescent =>
         \A k \in added_keys :
             k \in KeysOf(file.queue) \/ k \in KeysOf(popped)
    /\ \A i, j \in 1..Len(popped) :
         (i < j /\ popped[i].ad_key # NoKey) =>
             popped[i].ad_key # popped[j].ad_key

\* C18: after any append and pop calls no ad key is queued twice and no
\* queued key is a served key.
C18_NoRepeats ==
    /\ \A i, j \in 1..Len(file.queue) :
         (i < j /\ file.queue[i].ad_key # NoKey) =>
             file.queue[i].ad_key # file.queue[j].ad_key
    /\ KeysOf(file.queue) \cap Range(file.served_keys) = {}

\* an append was handed an ad whose key had been served, and did not
\* enqueue it
C18_Witness ==
    /\ Quiescent
    /\ \E k \in refused :
         k \in Range(file.served_keys) /\ k \notin KeysOf(file.queue)
    /\ file.queue # <<>>

\* C19: replace_queue keeps the served history: every key that was in the
\* persisted served_keys before the call is in served_keys after it.
C19_ReplaceKeepsServed ==
    [][replaced' # replaced =>
         Range(file.served_keys) \subseteq Range(file'.served_keys)]_vars

\* C29: pop_next_ad serves first-in-first-out: when a pop returns an ad,
\* that ad is the oldest ad in the persisted queue, exactly that ad is
\* removed from it, and its ad_key, when it has one, is appended to the
\* persisted served_keys.
C29_PopIsFifo ==
    [][popped' # popped =>
         LET returned == popped'[Len(popped')] IN
         /\ file.queue # <<>>
         /\ returned = Head(file.queue)
         /\ file'.queue = Tail(file.queue)
         /\ file'.served_keys =
              IF returned.ad_key # NoKey
              THEN Append(file.served_keys, returned.ad_key)
              ELSE file.served_keys]_vars

(***************************************************************************)
(* Claims about the ranking.                                               *)
(***************************************************************************)
\* a returned record without its scores
WithoutScores(rec) == [f \in DOMAIN rec \ {"scores"} |-> rec[f]]

ScoreNames ==
    {"persona_alignment", "category_match", "safety", "completeness",
     "total"}

\* C20: rank_ads returns the input records, as many of each as it was
\* given and with their fields unchanged, each with the five scores, all
\* within [0, 100], in non-increasing order of total.
C20_RankAds ==
    ranked # <<>> =>
        LET out == ranked[1] IN
        /\ Len(out) = Len(rank_input)
        /\ \A i \in 1..Len(out) :
             /\ DOMAIN out[i].scores = ScoreNames
             /\ \A n \in ScoreNames :
                  0 <= out[i].scores[n] /\ out[i].scores[n] <= 1000
             /\ Cardinality({j \in 1..Len(out) :
                    WithoutScores(out[j]) = WithoutScores(out[i])})
                = Cardinality({j \in 1..Len(rank_input) :
                    rank_input[j] = WithoutScores(out[i])})
        /\ \A i \in 1..(Len(out) - 1) :
             out[i].scores.total >= out[i + 1].scores.total

\* the second record of the input came back first, with a total between
\* the ends of the range
C20_Witness ==
    /\ ranked # <<>>
    /\ Len(rank_input) >= 2
    /\ WithoutScores(ranked[1][1]) = rank_input[2]
    /\ ranked[1][1].scores.total > ranked[1][2].scores.total
    /\ ranked[1][1].scores.total < 1000
    /\ ranked[1][2].scores.total > 0

(***************************************************************************)
(* Claims about the conversation of a variant run.                         *)
(***************************************************************************)
\* the assistant messages of the conversation of variant v
AssistantMessages(v) ==
    SelectSeq(chat[v], LAMBDA m : m.role = "assistant")

\* the processing of the last reply of variant v is over, no later request
\* was made, and that reply carried tool calls
ReplyProcessed(v) ==
    /\ pc[v] \in {"await", "finish"}
    /\ requests[v] >= 1
    /\ requests[v] = Len(AssistantMessages(v))

LastReply(v) == AssistantMessages(v)[Len(AssistantMessages(v))]

\* does a tool call carry a non-empty ad_copy
HasCopy(tc) ==
    /\ tc.name = "generate_ad_image"
    /\ tc.arguments.kind = "object"
    /\ Get(tc.arguments.obj, "ad_copy", <<>>) # <<>>

\* the tool calls of a reply up to the first whose arguments fail to parse
RECURSIVE Executed(_)
Executed(tcs) ==
    IF tcs = <<>> \/ ToolCallRaises(Head(tcs)) # "none" THEN <<>>
    ELSE <<Head(tcs)>> \o Executed(Tail(tcs))

\* the ad_copy of the last of the tool calls that carries one
LastCopy(tcs) ==
    LET cs == SelectSeq(tcs, HasCopy)
    IN  cs[Len(cs)].arguments.obj.ad_copy

\* C25: when a reply carries a generate_ad_image tool call with non-empty
\* ad_copy, the running copy after the processing of that reply is the
\* ad_copy of the tool call, whatever free text that reply and the earlier
\* replies carried.
C25_ToolCopyOverrides ==
    \A v \in Variants :
        (ReplyProcessed(v) /\ \E j \in 1..Len(LastReply(v).tool_calls) :
                                  HasCopy(LastReply(v).tool_calls[j]))
        => ad_copy[v] = LastCopy(LastReply(v).tool_calls)

\* C25 as amended: when a reply carries a generate_ad_image tool call with
\* non-empty ad_copy that is executed (no tool call before it in the reply
\* has arguments that fail to parse), the running copy after the
\* processing of that reply is the ad_copy of the last such call, whatever
\* free text that reply and the earlier replies carried; tool calls that
\* follow one whose arguments fail to parse are not executed and do not
\* change the copy.
C25_ExecutedToolCopyOverrides ==
    \A v \in Variants :
        ReplyProcessed(v) =>
            LET done == Executed(LastReply(v).tool_calls) IN
            /\ (\E j \in 1..Len(done) : HasCopy(done[j]))
                 => ad_copy[v] = LastCopy(done)
            /\ (Len(AssistantMessages(v)) = 1
                /\ \A j \in 1..Len(done) : ~HasCopy(done[j]))
                 => ad_copy[v] = CopyAfterContent(<<>>, LastReply(v).content)

\* the second reply carried free text and a tool call with ad_copy, and
\* the running copy is the ad_copy of the tool call
C25_Witness ==
    \E v \in Variants :
        /\ pc[v] = "await"
        /\ requests[v] = 2
        /\ ReplyProcessed(v)
        /\ LastReply(v).content = <<"T">>
        /\ AssistantMessages(v)[1].content = <<"T">>
        /\ HasCopy(LastReply(v).tool_calls[1])
        /\ ad_copy[v] = <<"C">>

\* the copies that the handling of the replies rs writes, in order: per
\* reply its free text, when something is left of it after the clean-up,
\* and then the ad_copy of each executed tool call that carries one
RECURSIVE Writes(_)
Writes(rs) ==
    IF rs = <<>> THEN <<>>
    ELSE LET r    == Head(rs)
             text == IF r.content = <<>> THEN <<>>
                     ELSE PyStrip(CleanContent(r.content), Whitespace)
             cs   == SelectSeq(Executed(r.tool_calls), HasCopy)
         IN  (IF text # <<>> THEN <<text>> ELSE <<>>)
             \o [j \in 1..Len(cs) |-> cs[j].arguments.obj.ad_copy]
             \o Writes(Tail(rs))

C31_LastImageOutcome ==
    \A v \in Variants :
        rewritten[v] # <<>> =>
            rewritten[v][1].enhanced_image_uri
              = IF generated[v] = <<>> THEN NoneVal
                ELSE generated[v][Len(generated[v])]

\* a run whose first image generation gave a url and whose last gave none
C31_Witness ==
    \E v \in Variants :
        /\ rewritten[v] # <<>>
        /\ Len(generated[v]) >= 2
        /\ generated[v][1] = GeneratedUrl
        /\ generated[v][Len(generated[v])] = NoneVal
        /\ rewritten[v][1].enhanced_image_uri = NoneVal

\* the run of variant v made no image generation, or its last one gave no
\* url
NoGeneratedImage(v) ==
    generated[v] = <<>> \/ generated[v][Len(generated[v])] = NoneVal

\* C32: when a source image exists and the run ends without a generated
\* image, the returned image_uri is absent, not the source image, and no
\* comparison is recorded.
C32_NoImageNoComparison ==
    \A v \in Variants :
        (rewritten[v] # <<>> /\ original_image_url # NoneVal
         /\ NoGeneratedImage(v))
        => /\ rewritten[v][1].image_uri = NoneVal
           /\ rewritten[v][1].ctr_comparison = <<>>
           /\ rewritten[v][1].original_image_uri = original_image_url

\* a run with a source image whose only image generation failed
C32_Witness ==
    \E v \in Variants :
        /\ rewritten[v] # <<>>
        /\ original_image_url = OriginalUrl
        /\ Len(generated[v]) = 1
        /\ NoGeneratedImage(v)
        /\ "image" \in faults[v]
        /\ rewritten[v][1].image_uri = NoneVal

\* C33: remix_ads returns exactly three variants, and the variant at
\* position i (0-based) is the result of the run started for direction
\* i + 1, in whatever order the runs returned.
C33_VariantsInDirectionOrder ==
    rewritten_ads # <<>> =>
        /\ Len(rewritten_ads[1]) = 3
        /\ \A i \in 1..3 : rewritten_ads[1][i] = rewritten[i][1]

\* the run of direction 3 returned first and that of direction 1 last,
\* with different texts
C33_Witness ==
    /\ rewritten_ads # <<>>
    /\ finished = <<3, 2, 1>>
    /\ rewritten[1][1].content # rewritten[3][1].content
    /\ rewritten_ads[1][1].content = rewritten[1][1].content

\* every assistant message of the conversation c is followed at once by
\* one tool-result message per tool call it carries, each with a success
\* flag that tells whether it holds a url
WellAnswered(c) ==
    \A p \in 1..Len(c) :
        c[p].role = "assistant" =>
            LET n == Len(c[p].tool_calls) IN
            /\ p + n <= Len(c)
            /\ \A j \in 1..n :
                 /\ c[p + j].role = "tool"
                 /\ c[p + j].result # <<>>
                 /\ c[p + j].result[1].success
                      = (c[p + j].result[1].image_url # NoneVal)
            /\ p + n < Len(c) => c[p + n + 1].role # "tool"

\* C26: whenever a request after the first is about to be sent, the
\* conversation holds, for every assistant tool-call message, one
\* tool-result message (success flag and url) per tool call of that
\* message, after the assistant message and before the request.
C26_ToolResultsBeforeRequest ==
    \A v \in Variants :
        (pc[v] = "await" /\ requests[v] >= 1) => WellAnswered(chat[v])

\* the working state and the conversation of the run of variant w
LocalState(w) ==
    <<pc[w], iteration[w], requests[w], ad_copy[w], enhanced_image_url[w],
      image_prompt_used[w], enhancement_notes[w], tool_calls[w], faults[w],
      rewritten[w], chat[w], sampled[w], generated[w]>>

\* C28: each of the three concurrently running variants has its own
\* conversation and working state: every message of a conversation was
\* appended by the run that owns it, and every step (a reply to one run's
\* request and its handling) changes the state, the conversation and the
\* result of that run only.
C28_VariantsIsolated ==
    /\ [](\A v \in Variants : \A p \in 1..Len(chat[v]) : chat[v][p].by = v)
    /\ [][\E v \in Variants :
            \A w \in Variants \ {v} : LocalState(w)' = LocalState(w)]_vars

\* two runs are inside their loops with tool calls answered or pending
\* while the third has returned
C28_Witness ==
    \E v \in Variants : \E w \in Variants \ {v} :
        \E u \in Variants \ {v, w} :
            /\ pc[v] = "tools" /\ Len(chat[v]) > 2
            /\ pc[w] = "await" /\ Len(chat[w]) > 3
            /\ rewritten[u] # <<>>

(***************************************************************************)
(* Claims about the context card.                                          *)
(***************************************************************************)

\* C22: the context card holds at most 25 reference posts, however many
\* reranked entries the reply lists.
C22_AtMost25Posts ==
    context_card # <<>> =>
        Len(context_card[1].top_25_reranked_posts) <= Top25

\* the posts of the user data that a post id of the reply names: the post
\* of that source with that id, or for a bare id a post of any source
\* with that id
NamedPosts(ud, post_id) ==
    {[text |-> ud[src][i].text, source |-> src, id |-> ud[src][i].id] :
        <<src, i>> \in {<<s, k>> \in {Sources[j] : j \in 1..Len(Sources)}
                                      \X (1..2) :
                           /\ k <= Len(ud[s])
                           /\ ud[s][k].id # ""
                           /\ \/ post_id = CompositeKey(s, ud[s][k].id)
                              \/ post_id = BareId(ud[s][k].id)}}

\* the entries of a reranked list whose post id names a post of the user
\* data
NamingEntries(ud, list) ==
    SelectSeq(list, LAMBDA e : NamedPosts(ud, Get(e, "post_id", BareId(""))) # {})

\* C37: every reference post of the card carries the text and the source
\* of a post of the user data that the reply entry of its rank names, the
\* entries naming no post of the user data are dropped, and a reply that
\* json.loads rejects gives a card without reference posts.
C37_PostsFromUserData ==
    context_card # <<>> =>
        LET posts == context_card[1].top_25_reranked_posts
            list  == IF parsed[1].has_list
                     THEN parsed[1].top_25_reranked_posts ELSE <<>>
            named == NamingEntries(user_data, list)
        IN  /\ Len(posts) = Len(named)
            /\ \A i \in 1..Len(posts) :
                 /\ posts[i].rank = named[i].rank
                 /\ \E u \in NamedPosts(user_data, named[i].post_id) :
                      /\ posts[i].text = u.text
                      /\ posts[i].source = u.source
                      /\ posts[i].post_id = u.id
            /\ JsonLoadsRaises(ExtractJson(card_reply[1].content))
                   => posts = <<>>

\* a card made from a reply of two entries, one naming a post of the user
\* data and one naming none
C37_Witness ==
    /\ context_card # <<>>
    /\ Len(parsed[1].top_25_reranked_posts) = 2
    /\ Len(context_card[1].top_25_reranked_posts) = 1
    /\ \E i \in 1..2 :
         NamedPosts(user_data,
                    Get(parsed[1].top_25_reranked_posts[i], "post_id",
                        BareId(""))) = {}

(***************************************************************************)
(* Claims about the OAuth login server.                                    *)
(***************************************************************************)

\* the callback of handler h gets past its argument checks with state st
\* in this step
CallbackWith(h, st) ==
    /\ handler[h].pc = "idle"
    /\ handler'[h].pc # "idle"
    /\ handler'[h].route = "/callback"
    /\ handler'[h].state = st
    /\ handler'[h].body \notin {"X returned error", "Missing code or state"}

\* C38: a state is accepted by callback at most once for each time
\* start_login issued it, and a callback with a state that was never
\* issued, or that was accepted since it was issued, is answered with 400
\* and makes no token request.
C38_StateAcceptedOnce ==
    /\ [](\A st \in OAuthStates : accepted[st] <= issued[st])
    /\ [](\A h \in Handlers :
            handler[h].body = "Invalid state (CSRF check failed)"
                => handler[h].status = 400 /\ ~handler[h].posted)
    /\ [][\A h \in Handlers, st \in OAuthStates :
            CallbackWith(h, st) /\ (issued[st] = 0 \/ accepted[st] >= issued[st])
                => /\ handler'[h].pc = "done"
                   /\ handler'[h].status = 400
                   /\ handler'[h].body = "Invalid state (CSRF check failed)"
                   /\ accepted' = accepted]_vars

\* a state issued once, accepted by one callback whose token request was
\* made, and refused to a later callback
C38_Witness ==
    \E st \in OAuthStates, h, k \in Handlers :
        /\ issued[st] = 1
        /\ accepted[st] = 1
        /\ handler[h].route = "/callback" /\ handler[h].state = st
        /\ handler[h].posted
        /\ handler[k].route = "/callback" /\ handler[k].state = st
        /\ handler[k].status = 400
        /\ handler[k].body = "Invalid state (CSRF check failed)"

====
